---- MODULE Spec2Model ----
(***************************************************************************)
(* Frame orchestration of VRV: the window and HMD frame operations, the    *)
(* acquire-semaphore ring, the per-slot fences and command buffers, the    *)
(* graphics queue and the window swapchain rebuild on resize.              *)
(*                                                                         *)
(* Two API layers of the repository are modelled side by side and selected *)
(* by `variant`:                                                           *)
(*   "state"   - src/src/state/*.rs   (State::render_window, render_hmd)   *)
(*   "context" - src/src/context/*.rs (Context::render_window, record_hmd, *)
(*               submit_hmd) driven by examples/simple/main.rs             *)
(* The GPU is an asynchronous consumer of the single graphics queue.       *)
(***************************************************************************)
EXTENDS Integers, Sequences, FiniteSets, TLC

\* ------------------------------------------------------------------ bounds
\* caller operations (HMD iterations, window iterations, resizes) per run
MaxFrames == 3

\* images of the HMD swapchain (the runtime chooses the number)
HmdImageCount == 2

\* session-state events the runtime may have queued between two iterations
MaxEvents == 2

\* surface formats the platform reports at most
MaxFormats == 2

\* largest min_image_count / max_image_count the platform reports
MaxImageCount == 4

\* ------------------------------------------------------- program constants
\* std::u32::MAX, the "undefined extent" marker; the largest value the model's
\* integers hold stands for it (it is only compared, never computed with)
U32_MAX == 2147483647

\* SurfaceRelated::detail asks for 3 images, or fewer if the surface allows fewer
WantedImages == 3

\* main.rs: Double::create_front_and_back is declared to return [Self; 2], and
\* the flip-flop counters run modulo 2
DoubleCount == 2

\* --------------------------------------------------- environment's choices
Ext(w, h) == [width |-> w, height |-> h]

MinImageExtent == Ext(1, 1)

MaxImageExtent == Ext(4, 4)

\* window.inner_size() values
WantedExtents == {Ext(0, 0), Ext(5, 2)}

Caps(m, e) ==
  [max_image_count |-> m, current_extent |-> e,
   min_image_extent |-> MinImageExtent, max_image_extent |-> MaxImageExtent]

\* the surface capabilities the platform may report
CapsSet == {Caps(0, Ext(U32_MAX, U32_MAX)), Caps(2, Ext(2, 2))}

NoSem == -1

NoIndex == -1

None == [none |-> TRUE]

VARIABLES
  variant,                      \* which API layer drives the frame loop
  phase,                        \* position of the frame loop
  frames,                       \* caller operations started so far
  caps,                         \* SurfaceCapabilitiesKHR of the window surface
  wanted,                       \* window.inner_size()
  last_used_acquire_semaphore,  \* ContextWindow.last_used_acquire_semaphore
  acquire_calls,                \* pre_render_window calls made so far
  semaphores_image_acquired,    \* ring: index -> outstanding signal/wait ops
  fences,                       \* fence id -> signaled
  queue,                        \* submissions the GPU has not completed yet
  swapchains,                   \* every SwapchainWindow build, by generation
  cur,                          \* generation held in self.window.swapchain
  window_pre_render_info,       \* PreRenderInfoWindow handed to render_window
  hmd_pre_render_info,          \* PreRenderInfoHMD handed to the HMD calls
  xr,                           \* runtime frame / swapchain image protocol
  window_flip_flop,             \* main.rs window_flip_flop
  hmd_flip_flop,                \* main.rs hmd_flip_flop
  views,                        \* main.rs views: display time they were located for
  lastOp,                       \* operation performed by the last step
  lastResult,                   \* "ok" | "err" | "panic" | "blocked"
  lastError,                    \* the error the last operation ended with
  lastCalls,                    \* GPU / runtime calls the last operation made
  hazards,                      \* API hazards observed in the last operation
  hmdIterCalls,                 \* calls of the current HMD iteration
  mesh_buffers,                 \* MeshBuffers: the vertex and index buffer
  mesh,                         \* the Mesh last written into mesh_buffers
  front_back                    \* main.rs hmd_front_back / window_front_back

vars ==
  <<variant, mesh_buffers, mesh, front_back, phase, frames, caps, wanted, last_used_acquire_semaphore,
    acquire_calls, semaphores_image_acquired, fences, queue, swapchains, cur,
    window_pre_render_info, hmd_pre_render_info, xr, window_flip_flop,
    hmd_flip_flop, views, lastOp, lastResult, lastError, lastCalls, hazards,
    hmdIterCalls>>

\* ----------------------------------------------------------------- helpers
Min(a, b) == IF a < b THEN a ELSE b

Max(a, b) == IF a > b THEN a ELSE b

\* every call being made although an earlier one failed (a dropped `?`)
Attempted_ignoring(steps, fail) == [i \in 1..Len(steps) |-> steps[i].c]

\* the calls of a handler that are attempted when its fail-th fallible call
\* fails (fail = 0: none fails).  Every step carries the ordinal n of the next
\* fallible call at or after it.
Attempted(steps, fail) ==
  LET kept == IF fail = 0 THEN steps
              ELSE SelectSeq(steps, LAMBDA e : e.n <= fail)
  IN [i \in 1..Len(kept) |-> kept[i].c]

Done(fail, n) == fail = 0 \/ n < fail

Result(fail) == IF fail = 0 THEN "ok" ELSE "err"

\* what a failing call may return: the surface being out of date, or anything else
ErrorKinds == {"ERROR_OUT_OF_DATE_KHR", "other"}

NoError == [kind |-> "none", at |-> 0]

\* position, among the calls of a handler, of its fail-th fallible call
FailedAt(steps, fail) ==
  LET at == {k \in 1..Len(steps) : steps[k].n = fail}
  IN IF fail = 0 \/ at = {} THEN 0
     ELSE CHOOSE k \in at : \A j \in at : j <= k

\* the Err a handler returns when its fail-th fallible call fails with `kind`
ErrorOf(steps, fail, kind) ==
  IF fail = 0 THEN NoError ELSE [kind |-> kind, at |-> FailedAt(steps, fail)]

Calls(name) == {i \in 1..Len(lastCalls) : lastCalls[i][1] = name}

IterCalls(name) == {i \in 1..Len(hmdIterCalls) : hmdIterCalls[i][1] = name}

\* ------------------------------------------------------------ surface query
\* SurfaceRelated::detail: the image count requested for the window swapchain
image_count(c) ==
  IF c.max_image_count > 0 THEN Min(WantedImages, c.max_image_count)
  ELSE WantedImages

\* Context::get_allowed_extend
get_allowed_extend(c, w) ==
  IF c.current_extent.height = U32_MAX
  THEN Ext(Max(c.min_image_extent.width, Min(c.max_image_extent.width, w.width)),
           Max(c.min_image_extent.height, Min(c.max_image_extent.height, w.height)))
  ELSE c.current_extent

\* ------------------------------------------------------------------ the GPU
InFlight(q, cb) == \E i \in 1..Len(q) : q[i].cb = cb

FencePending(q, f) == \E i \in 1..Len(q) : q[i].fence = f

\* fences after the GPU completed the first k submissions of q
RetireFences(fs, q, k) ==
  [f \in DOMAIN fs |-> fs[f] \/ \E i \in 1..k : q[i].fence = f]

\* acquire semaphores after the GPU completed the first k submissions of q:
\* each completed submission consumed one signal with its wait
RetireSems(ss, q, k) ==
  [s \in DOMAIN ss |->
     LET n == Cardinality({i \in 1..k : q[i].wait = s})
     IN [signals |-> Max(0, ss[s].signals - n), waits |-> Max(0, ss[s].waits - n)]]

\* number of submissions the GPU completes until fence f is signaled
WaitDepth(fs, q, f) ==
  IF fs[f] \/ ~FencePending(q, f) THEN 0
  ELSE CHOOSE i \in 1..Len(q) :
         q[i].fence = f /\ \A j \in 1..(i - 1) : q[j].fence # f

\* wait_for_fences returns only for a fence that is or becomes signaled
CanWait(fs, q, f) == fs[f] \/ FencePending(q, f)

\* the fence being waited for but left signaled
wait_and_reset_noReset(fs, ss, q, f) ==
  LET k == WaitDepth(fs, q, f)
  IN [fences |-> RetireFences(fs, q, k),
      sems |-> RetireSems(ss, q, k),
      queue |-> SubSeq(q, k + 1, Len(q))]

\* every fence being reset, not only the one waited for
wait_and_reset_all(fs, ss, q, f) ==
  LET k == WaitDepth(fs, q, f)
  IN [fences |-> [g \in DOMAIN fs |-> FALSE],
      sems |-> RetireSems(ss, q, k),
      queue |-> SubSeq(q, k + 1, Len(q))]

\* sync::wait_and_reset, the state after its two calls succeeded
wait_and_reset(fs, ss, q, f) ==
  LET k == WaitDepth(fs, q, f)
  IN [fences |-> [RetireFences(fs, q, k) EXCEPT ![f] = FALSE],
      sems |-> RetireSems(ss, q, k),
      queue |-> SubSeq(q, k + 1, Len(q))]

\* the drain returning without waiting for the queue
wait_idle_noDrain(fs, ss, q) == [fences |-> fs, sems |-> ss, queue |-> q]

\* Context::wait_idle, queue_wait_idle returned success: nothing is pending
wait_idle(fs, ss, q) ==
  [fences |-> RetireFences(fs, q, Len(q)),
   sems |-> RetireSems(ss, q, Len(q)),
   queue |-> <<>>]

Submission(cb, fence, waitSem, target) ==
  [cb |-> cb, fence |-> fence, wait |-> waitSem, target |-> target]

\* ------------------------------------------------------- window swapchain
Kinds == {"image_view", "framebuffer", "swapchain",
          "depth_image", "depth_memory", "depth_view"}

BuildFailures ==
  {"none", "get_allowed_extend", "create_image", "allocate_memory",
   "create_depth_view", "create_swapchain", "get_swapchain_images",
   "count_mismatch", "create_image_view", "create_framebuffer"}

\* how far a build got: the calls of SwapchainWindow::new in program order
BuildOrder ==
  <<"get_allowed_extend", "create_image", "allocate_memory",
    "create_depth_view", "create_swapchain", "get_swapchain_images",
    "count_mismatch", "create_image_view", "create_framebuffer">>

BuildPos(name) == CHOOSE i \in 1..Len(BuildOrder) : BuildOrder[i] = name

\* the call `name` of a build failing at `failure` returned success
Built(failure, name) ==
  failure = "none" \/ BuildPos(name) < BuildPos(failure)

\* SwapchainWindow::new: the objects one build creates.  `failure` names the
\* call that fails; `at` is the element whose view or framebuffer fails.
SwapchainWindow_new(c, w, failure, at) ==
  LET n == image_count(c)
      nviews == IF failure = "none" THEN n
               ELSE IF failure = "create_image_view" THEN at
               ELSE IF failure = "create_framebuffer" THEN at + 1
               ELSE 0
      nfbs == IF failure = "none" THEN n
             ELSE IF failure \in {"create_image_view", "create_framebuffer"} THEN at
             ELSE 0
  IN [ok |-> failure = "none",
      extent |-> get_allowed_extend(c, w),
      elements |-> n,
      created |->
        [k \in Kinds |->
           CASE k = "depth_image" -> IF Built(failure, "create_image") THEN 1 ELSE 0
             [] k = "depth_memory" -> IF Built(failure, "allocate_memory") THEN 1 ELSE 0
             [] k = "depth_view" -> IF Built(failure, "create_depth_view") THEN 1 ELSE 0
             [] k = "swapchain" -> IF Built(failure, "create_swapchain") THEN 1 ELSE 0
             [] k = "image_view" -> nviews
             [] k = "framebuffer" -> nfbs],
      destroyed |-> [k \in Kinds |-> 0]]

\* SwapchainWindow::destroy: every handle the struct holds is destroyed
SwapchainWindow_destroy(sc) ==
  [sc EXCEPT !.destroyed =
     [k \in Kinds |->
        sc.destroyed[k] + (IF k \in {"image_view", "framebuffer"} THEN sc.elements ELSE 1)]]

DestroyCalls(g) ==
  <<[n |-> 2, c |-> <<"destroy_image_views", g>>],
    [n |-> 2, c |-> <<"destroy_framebuffers", g>>],
    [n |-> 2, c |-> <<"destroy_swapchain", g>>],
    [n |-> 2, c |-> <<"destroy_depth_image", g>>]>>

\* ------------------------------------------------------------------ Init
WinFence(i) == <<"win", i>>

HmdFence(i) == <<"hmd", i>>

DoubleFence(i) == <<"double", i>>

FenceIds(n) ==
  {WinFence(i) : i \in 0..(n - 1)} \cup {HmdFence(i) : i \in 0..(HmdImageCount - 1)}
    \cup {DoubleFence(i) : i \in 0..(DoubleCount - 1)}

\* window per-frame resource sets allocated by Context::new / State::new
PerFrameLen == Cardinality({f \in DOMAIN fences : f[1] = "win"})

RingLen == Cardinality(DOMAIN semaphores_image_acquired)

\* every fence being created unsignaled
create_fence_unsignaled(signaled) == FALSE

\* sync::create_fence: FenceCreateFlags::SIGNALED iff `signaled`
create_fence(signaled) == signaled

\* Context::new / State::new succeeded
Init ==
  /\ variant \in {"state", "context"}
  /\ phase = "idle"
  /\ frames = 0
  /\ caps \in CapsSet
  /\ wanted \in WantedExtents
  /\ last_used_acquire_semaphore = 0
  /\ acquire_calls = 0
  /\ semaphores_image_acquired =
       [k \in 0..(image_count(caps) - 1) |-> [signals |-> 0, waits |-> 0]]
  \* create_fence(&vulkan, true, ..): start in signaled state
  /\ fences = [f \in FenceIds(image_count(caps)) |-> create_fence(TRUE)]
  /\ queue = <<>>
  /\ swapchains = <<SwapchainWindow_new(caps, wanted, "none", 0)>>
  /\ cur = 1
  /\ window_pre_render_info = None
  /\ hmd_pre_render_info = None
  /\ xr = [frame_open |-> FALSE, ends |-> 0, image |-> "released"]
  /\ window_flip_flop = 0
  /\ hmd_flip_flop = 0
  /\ views = NoIndex
  /\ lastOp = "new"
  /\ lastResult = "ok"
  /\ lastError = NoError
  /\ lastCalls = <<>>
  /\ hazards = {}
  /\ hmdIterCalls = <<>>
  /\ mesh_buffers = None
  /\ mesh = None
  /\ front_back = None

\* ------------------------------------------------------------ window frame
\* the cursor advancing by two: a second increment slipped in
NextAcquireSemaphore_twice(cursor, len) == (cursor + 2) % len

\* pre_render_window: last_used_acquire_semaphore += 1; %= len
NextAcquireSemaphore(cursor, len) == (cursor + 1) % len

\* the fence stored at the same index / in the same bundle as a command buffer
PairedFence(cb) == cb

\* Context::pre_render_window / State::pre_render_window
pre_render_window(fail, err, image_index) ==
  LET sem == last_used_acquire_semaphore
      busy == semaphores_image_acquired[sem].signals > 0
                \/ semaphores_image_acquired[sem].waits > 0
  IN /\ phase = "idle"
     /\ frames < MaxFrames
     /\ frames' = frames + 1
     /\ hmd_pre_render_info' = None
     /\ views' = NoIndex
     /\ hmdIterCalls' = <<>>
     /\ last_used_acquire_semaphore' =
          NextAcquireSemaphore(last_used_acquire_semaphore, RingLen)
     /\ acquire_calls' = acquire_calls + 1
     /\ lastOp' = "pre_render_window"
     /\ lastCalls' = <<<<"acquire_next_image", sem>>>>
     /\ hazards' = IF busy THEN {"acquire_semaphore_busy"} ELSE {}
     /\ lastResult' = Result(fail)
     /\ lastError' = IF fail = 0 THEN NoError ELSE [kind |-> err, at |-> 1]
     /\ IF fail = 0
        THEN /\ semaphores_image_acquired' =
                  [semaphores_image_acquired EXCEPT ![sem].signals = @ + 1]
             /\ window_pre_render_info' =
                  [image_index |-> image_index, image_acquired_semaphore |-> sem]
             /\ phase' = "win_render"
        ELSE /\ UNCHANGED <<semaphores_image_acquired, window_pre_render_info>>
             /\ phase' = "failed"
     /\ UNCHANGED <<variant, mesh_buffers, mesh, front_back, caps, wanted, fences, queue, swapchains, cur, xr,
                    window_flip_flop, hmd_flip_flop>>

\* the recording of one window frame, reset_command_buffer .. end_command_buffer
WindowRecording(cb, first) ==
  <<[n |-> first, c |-> <<"reset_command_buffer", cb>>],
    [n |-> first + 1, c |-> <<"begin_command_buffer", cb>>],
    [n |-> first + 2, c |-> <<"cmd_begin_render_pass", cb>>],
    [n |-> first + 2, c |-> <<"cmd_bind_pipeline", cb>>],
    [n |-> first + 2, c |-> <<"cmd_set_viewport", cb>>],
    [n |-> first + 2, c |-> <<"cmd_set_scissor", cb>>],
    [n |-> first + 2, c |-> <<"cmd_draw_indexed", cb>>],
    [n |-> first + 2, c |-> <<"cmd_end_render_pass", cb>>],
    [n |-> first + 2, c |-> <<"end_command_buffer", cb>>]>>

\* another image than the acquired one being presented
WindowSubmitPresent_otherImage(cb, sem, rf, f, i, n) ==
  <<[n |-> n, c |-> <<"queue_submit", cb, sem, rf, f>>],
    [n |-> n + 1, c |-> <<"queue_present", rf, i + 1>>]>>

\* present issued whether or not the submission went through
WindowSubmitPresent_presentAnyway(cb, sem, rf, f, i, n) ==
  <<[n |-> n, c |-> <<"queue_submit", cb, sem, rf, f>>],
    [n |-> n, c |-> <<"queue_present", rf, i>>]>>

\* queue_submit(...)? followed by post_render_window / queue_present
WindowSubmitPresent(cb, sem, rf, f, i, n) ==
  <<[n |-> n, c |-> <<"queue_submit", cb, sem, rf, f>>],
    [n |-> n + 1, c |-> <<"queue_present", rf, i>>]>>

\* the rendering-finished semaphore stored at index i
SlotSemaphore(i) == <<"rf", i>>

\* State::render_window: the slot of the acquired image index is waited,
\* reset, recorded, submitted and presented
State_render_window(fail, err) ==
  LET info == window_pre_render_info
      i == info.image_index
      sem == info.image_acquired_semaphore
      f == WinFence(i)
      cb == <<"win", i>>
      rf == SlotSemaphore(i)
      w == wait_and_reset(fences, semaphores_image_acquired, queue, f)
      waited == Done(fail, 2)
      q1 == IF Done(fail, 1) THEN w.queue ELSE queue
      submitted == Done(fail, 6)
      steps ==
        <<[n |-> 1, c |-> <<"wait_for_fences", f>>],
          [n |-> 2, c |-> <<"reset_fences", f>>]>>
        \o WindowRecording(cb, 3)
        \o WindowSubmitPresent(cb, sem, rf, f, i, 6)
  IN /\ phase = "win_render"
     /\ variant = "state"
     /\ i < PerFrameLen
     /\ fail \in 0..7
     /\ fail = 1 \/ CanWait(fences, queue, f)
     /\ lastOp' = "render_window"
     /\ lastResult' = Result(fail)
     /\ lastError' = ErrorOf(steps, fail, err)
     /\ lastCalls' = Attempted(steps, fail)
     /\ hazards' = IF Done(fail, 2) /\ InFlight(q1, cb)
                   THEN {"reset_in_flight"} ELSE {}
     /\ fences' = IF waited THEN w.fences
                  ELSE IF Done(fail, 1) THEN [w.fences EXCEPT ![f] = TRUE]
                  ELSE fences
     /\ semaphores_image_acquired' =
          LET s1 == IF Done(fail, 1) THEN w.sems ELSE semaphores_image_acquired
          IN IF submitted THEN [s1 EXCEPT ![sem].waits = @ + 1] ELSE s1
     /\ queue' = IF submitted THEN Append(q1, Submission(cb, f, sem, "window")) ELSE q1
     /\ window_pre_render_info' = None
     /\ phase' = IF fail = 0 THEN "idle" ELSE "failed"
     /\ UNCHANGED <<variant, mesh_buffers, mesh, front_back, acquire_calls, frames, caps, wanted, last_used_acquire_semaphore,
                    swapchains, cur, hmd_pre_render_info, xr, window_flip_flop,
                    hmd_flip_flop, views, hmdIterCalls>>

\* State::render_window indexing its per-frame vectors with an image index
\* beyond their length: the bounds check panics before any call is made
State_render_window_panic ==
  /\ phase = "win_render"
  /\ variant = "state"
  /\ window_pre_render_info.image_index >= PerFrameLen
  /\ lastOp' = "render_window"
  /\ lastResult' = "panic"
  /\ lastError' = NoError
  /\ lastCalls' = <<>>
  /\ hazards' = {}
  /\ phase' = "failed"
  /\ window_pre_render_info' = None
  /\ UNCHANGED <<variant, mesh_buffers, mesh, front_back, acquire_calls, frames, caps, wanted,
                 last_used_acquire_semaphore, semaphores_image_acquired, fences,
                 queue, swapchains, cur, hmd_pre_render_info, xr,
                 window_flip_flop, hmd_flip_flop, views, hmdIterCalls>>

\* Context::render_window called as main.rs calls it: the command buffer,
\* fence and semaphore are those of window_front_back[window_flip_flop]
Context_render_window(fail, err) ==
  LET info == window_pre_render_info
      i == info.image_index
      sem == info.image_acquired_semaphore
      f == DoubleFence(window_flip_flop)
      cb == <<"double", window_flip_flop>>
      rf == <<"double", window_flip_flop>>
      submitted == Done(fail, 4)
      steps ==
        WindowRecording(cb, 1)
        \o WindowSubmitPresent(cb, sem, rf, f, i, 4)
  IN /\ phase = "win_render"
     /\ variant = "context"
     /\ fail \in 0..5
     /\ lastOp' = "render_window"
     /\ lastResult' = Result(fail)
     /\ lastError' = ErrorOf(steps, fail, err)
     /\ lastCalls' = Attempted(steps, fail)
     /\ hazards' = IF InFlight(queue, cb) THEN {"reset_in_flight"} ELSE {}
     /\ semaphores_image_acquired' =
          IF submitted THEN [semaphores_image_acquired EXCEPT ![sem].waits = @ + 1]
          ELSE semaphores_image_acquired
     /\ queue' = IF submitted THEN Append(queue, Submission(cb, f, sem, "window"))
                 ELSE queue
     /\ window_pre_render_info' = None
     /\ phase' = IF fail = 0 THEN "idle" ELSE "failed"
     /\ window_flip_flop' = IF fail = 0 THEN (window_flip_flop + 1) % DoubleCount
                            ELSE window_flip_flop
     /\ UNCHANGED <<variant, mesh_buffers, mesh, front_back, acquire_calls, frames, caps, wanted, last_used_acquire_semaphore,
                    fences, swapchains, cur, hmd_pre_render_info, xr,
                    hmd_flip_flop, views, hmdIterCalls>>

\* the GPU completes the oldest pending submission
GpuComplete ==
  /\ queue # <<>>
  /\ phase # "dropped"
  /\ fences' = RetireFences(fences, queue, 1)
  /\ semaphores_image_acquired' = RetireSems(semaphores_image_acquired, queue, 1)
  /\ queue' = Tail(queue)
  /\ UNCHANGED <<variant, mesh_buffers, mesh, front_back, acquire_calls, phase, frames, caps, wanted,
                 last_used_acquire_semaphore, swapchains, cur,
                 window_pre_render_info, hmd_pre_render_info, xr,
                 window_flip_flop, hmd_flip_flop, views, lastOp, lastResult,
                 lastError, lastCalls, hazards, hmdIterCalls>>

\* --------------------------------------------------------------- HMD frame
HmdUnchanged ==
  UNCHANGED <<variant, mesh_buffers, mesh, front_back, acquire_calls, caps, wanted,
              last_used_acquire_semaphore, swapchains, cur,
              window_pre_render_info, window_flip_flop>>

\* the frame of a skipped iteration never being ended
SkipEnd_missing(t, n) == <<>>

\* frame_stream.end(predicted_display_time, OPAQUE, &[]) of a skipped iteration
SkipEnd(t, n) == <<[n |-> n, c |-> <<"frame_end", t, <<>>>>]>>

\* the swapchain image being acquired whatever the runtime said
AcquiresImage_always(should_render) == TRUE

\* image_index = if frame_state.should_render { Some(acquire_image()?) } else { None }
AcquiresImage(should_render) == should_render

\* the call `name` of a handler was made and returned success
Succeeded(steps, fail, name) ==
  \E k \in 1..Len(steps) : steps[k].c[1] = name /\ Done(fail, steps[k].n)

\* the runtime image being released before the work on it was submitted
HmdSubmitRelease_releaseFirst(cb, f, n) ==
  <<[n |-> n, c |-> <<"release_image">>],
    [n |-> n + 1, c |-> <<"queue_submit", cb, NoSem, NoSem, f>>]>>

\* queue_submit(.., rendering_finished_fence)? followed by release_image()?
HmdSubmitRelease(cb, f, n) ==
  <<[n |-> n, c |-> <<"queue_submit", cb, NoSem, NoSem, f>>],
    [n |-> n + 1, c |-> <<"release_image">>]>>

\* the frame loop calls pre_render_hmd and blocks in frame_wait.wait() until the
\* runtime lets it return: the one thread of main.rs does nothing else meanwhile
frame_wait_call ==
  /\ phase = "idle"
  /\ frames < MaxFrames
  /\ frames' = frames + 1
  /\ phase' = "frame_wait"
  /\ hmd_pre_render_info' = None
  /\ views' = NoIndex
  /\ hmdIterCalls' = <<>>
  /\ lastOp' = "frame_wait"
  /\ lastResult' = "blocked"
  /\ lastError' = NoError
  /\ lastCalls' = <<>>
  /\ hazards' = {}
  /\ UNCHANGED <<fences, semaphores_image_acquired, queue, hmd_flip_flop, xr>>
  /\ HmdUnchanged

\* State::pre_render_hmd: frame_wait, begin, acquire_image when should_render
State_pre_render_hmd(fail, should_render, image_index) ==
  LET t == frames
      steps ==
        <<[n |-> 1, c |-> <<"frame_wait">>],
          [n |-> 2, c |-> <<"frame_begin">>]>>
        \o (IF AcquiresImage(should_render)
            THEN <<[n |-> 3, c |-> <<"acquire_image">>]>> ELSE <<>>)
      began == Succeeded(steps, fail, "frame_begin")
      acquired == Succeeded(steps, fail, "acquire_image")
  IN /\ phase = "frame_wait"
     /\ variant = "state"
     /\ UNCHANGED frames
     /\ fail \in 0..steps[Len(steps)].n
     /\ lastOp' = "pre_render_hmd"
     /\ lastResult' = Result(fail)
     /\ lastError' = ErrorOf(steps, fail, "other")
     /\ lastCalls' = Attempted(steps, fail)
     /\ hmdIterCalls' = Attempted(steps, fail)
     /\ hazards' = {}
     /\ xr' = [frame_open |-> IF began THEN TRUE ELSE xr.frame_open,
               ends |-> IF began THEN 0 ELSE xr.ends,
               image |-> IF acquired THEN "acquired" ELSE xr.image]
     /\ hmd_pre_render_info' =
          IF fail = 0
          THEN [image_index |-> IF AcquiresImage(should_render) THEN image_index
                                ELSE NoIndex,
                should_render |-> should_render,
                predicted_display_time |-> t]
          ELSE None
     /\ phase' = IF fail = 0 THEN "hmd_render" ELSE "failed"
     /\ views' = NoIndex
     /\ UNCHANGED <<fences, semaphores_image_acquired, queue, hmd_flip_flop>>
     /\ HmdUnchanged

\* Context::pre_render_hmd: as above, and the frame is ended at once with no
\* layers when the runtime says not to render
Context_pre_render_hmd(fail, should_render, image_index) ==
  LET t == frames
      steps ==
        <<[n |-> 1, c |-> <<"frame_wait">>],
          [n |-> 2, c |-> <<"frame_begin">>]>>
        \o (IF ~should_render THEN SkipEnd(t, 3) ELSE <<>>)
        \o (IF AcquiresImage(should_render)
            THEN <<[n |-> IF should_render THEN 3 ELSE 4, c |-> <<"acquire_image">>]>>
            ELSE <<>>)
      began == Succeeded(steps, fail, "frame_begin")
      ended == Succeeded(steps, fail, "frame_end")
      acquired == Succeeded(steps, fail, "acquire_image")
  IN /\ phase = "frame_wait"
     /\ variant = "context"
     /\ UNCHANGED frames
     /\ fail \in 0..steps[Len(steps)].n
     /\ lastOp' = "pre_render_hmd"
     /\ lastResult' = Result(fail)
     /\ lastError' = ErrorOf(steps, fail, "other")
     /\ lastCalls' = Attempted(steps, fail)
     /\ hmdIterCalls' = Attempted(steps, fail)
     /\ hazards' = {}
     /\ xr' = [frame_open |-> IF ended THEN FALSE
                              ELSE IF began THEN TRUE ELSE xr.frame_open,
               ends |-> (IF began THEN 0 ELSE xr.ends) + (IF ended THEN 1 ELSE 0),
               image |-> IF acquired THEN "acquired" ELSE xr.image]
     /\ hmd_pre_render_info' =
          IF fail = 0
          THEN [image_index |-> IF AcquiresImage(should_render) THEN image_index
                                ELSE NoIndex,
                should_render |-> should_render,
                predicted_display_time |-> t]
          ELSE None
     \* main.rs: record_hmd / submit_hmd only if image_index.is_some()
     /\ phase' = IF fail # 0 THEN "failed"
                 ELSE IF AcquiresImage(should_render) THEN "hmd_record" ELSE "idle"
     /\ views' = NoIndex
     /\ UNCHANGED <<fences, semaphores_image_acquired, queue, hmd_flip_flop>>
     /\ HmdUnchanged

\* the recording of one HMD frame by State::render_hmd (no draw call yet)
State_HmdRecording(cb, first) ==
  <<[n |-> first, c |-> <<"reset_command_buffer", cb>>],
    [n |-> first + 1, c |-> <<"begin_command_buffer", cb>>],
    [n |-> first + 2, c |-> <<"cmd_begin_render_pass", cb>>],
    [n |-> first + 2, c |-> <<"cmd_end_render_pass", cb>>],
    [n |-> first + 2, c |-> <<"end_command_buffer", cb>>]>>

\* the recording of one HMD frame by Context::record_hmd
Context_HmdRecording(cb, first) ==
  <<[n |-> first, c |-> <<"reset_command_buffer", cb>>],
    [n |-> first + 1, c |-> <<"begin_command_buffer", cb>>],
    [n |-> first + 2, c |-> <<"cmd_begin_render_pass", cb>>],
    [n |-> first + 2, c |-> <<"cmd_bind_pipeline", cb>>],
    [n |-> first + 2, c |-> <<"cmd_draw_indexed", cb>>],
    [n |-> first + 2, c |-> <<"cmd_end_render_pass", cb>>],
    [n |-> first + 2, c |-> <<"end_command_buffer", cb>>]>>

\* State::render_hmd with image_index = None: the frame is ended with no layers
State_render_hmd_skip(fail) ==
  LET info == hmd_pre_render_info
      steps == SkipEnd(info.predicted_display_time, 1)
      ended == Succeeded(steps, fail, "frame_end")
  IN /\ phase = "hmd_render"
     /\ info.image_index = NoIndex
     /\ fail \in 0..1
     /\ lastOp' = "render_hmd"
     /\ lastResult' = Result(fail)
     /\ lastError' = ErrorOf(steps, fail, "other")
     /\ lastCalls' = Attempted(steps, fail)
     /\ hmdIterCalls' = hmdIterCalls \o Attempted(steps, fail)
     /\ hazards' = {}
     /\ xr' = IF ended THEN [xr EXCEPT !.frame_open = FALSE, !.ends = @ + 1] ELSE xr
     /\ phase' = IF fail = 0 THEN "idle" ELSE "failed"
     /\ UNCHANGED <<frames, fences, semaphores_image_acquired, queue, hmd_flip_flop,
                    hmd_pre_render_info, views>>
     /\ HmdUnchanged

\* State::render_hmd with an acquired image: wait_image, the slot's fence,
\* recording, locate_views, submission, release_image, frame end with the layer
State_render_hmd(fail) ==
  LET info == hmd_pre_render_info
      i == info.image_index
      t == info.predicted_display_time
      f == HmdFence(i)
      cb == <<"hmd", i>>
      w == wait_and_reset(fences, semaphores_image_acquired, queue, f)
      q1 == IF Done(fail, 2) THEN w.queue ELSE queue
      submitted == Done(fail, 8)
      steps ==
        <<[n |-> 1, c |-> <<"wait_image">>],
          [n |-> 2, c |-> <<"wait_for_fences", f>>],
          [n |-> 3, c |-> <<"reset_fences", f>>]>>
        \o State_HmdRecording(cb, 4)
        \o <<[n |-> 7, c |-> <<"locate_views", t>>]>>
        \o HmdSubmitRelease(cb, f, 8)
        \o <<[n |-> 10, c |-> <<"frame_end", t, <<t>>>>]>>
  IN /\ phase = "hmd_render"
     /\ i # NoIndex
     /\ fail \in 0..10
     /\ fail \in 1..2 \/ CanWait(fences, queue, f)
     /\ lastOp' = "render_hmd"
     /\ lastResult' = Result(fail)
     /\ lastError' = ErrorOf(steps, fail, "other")
     /\ lastCalls' = Attempted(steps, fail)
     /\ hmdIterCalls' = hmdIterCalls \o Attempted(steps, fail)
     /\ hazards' = IF Done(fail, 3) /\ InFlight(q1, cb)
                   THEN {"reset_in_flight"} ELSE {}
     /\ fences' = IF Done(fail, 3) THEN w.fences
                  ELSE IF Done(fail, 2) THEN [w.fences EXCEPT ![f] = TRUE]
                  ELSE fences
     /\ semaphores_image_acquired' =
          IF Done(fail, 2) THEN w.sems ELSE semaphores_image_acquired
     /\ queue' = IF submitted THEN Append(q1, Submission(cb, f, NoSem, "hmd")) ELSE q1
     /\ views' = IF Done(fail, 7) THEN t ELSE views
     /\ xr' = [frame_open |-> IF fail = 0 THEN FALSE ELSE xr.frame_open,
               ends |-> IF fail = 0 THEN xr.ends + 1 ELSE xr.ends,
               image |-> IF Done(fail, 9) THEN "released"
                         ELSE IF Done(fail, 1) THEN "waited" ELSE xr.image]
     /\ phase' = IF fail = 0 THEN "idle" ELSE "failed"
     /\ UNCHANGED <<frames, hmd_flip_flop, hmd_pre_render_info>>
     /\ HmdUnchanged

\* Context::record_hmd: wait_image, the slot's fence, recording with the draw
Context_record_hmd(fail) ==
  LET info == hmd_pre_render_info
      i == info.image_index
      f == HmdFence(i)
      cb == <<"hmd", i>>
      w == wait_and_reset(fences, semaphores_image_acquired, queue, f)
      q1 == IF Done(fail, 2) THEN w.queue ELSE queue
      steps ==
        <<[n |-> 1, c |-> <<"wait_image">>],
          [n |-> 2, c |-> <<"wait_for_fences", f>>],
          [n |-> 3, c |-> <<"reset_fences", f>>]>>
        \o Context_HmdRecording(cb, 4)
  IN /\ phase = "hmd_record"
     /\ i # NoIndex
     /\ fail \in 0..6
     /\ fail \in 1..2 \/ CanWait(fences, queue, f)
     /\ lastOp' = "record_hmd"
     /\ lastResult' = Result(fail)
     /\ lastError' = ErrorOf(steps, fail, "other")
     /\ lastCalls' = Attempted(steps, fail)
     /\ hmdIterCalls' = hmdIterCalls \o Attempted(steps, fail)
     /\ hazards' = IF Done(fail, 3) /\ InFlight(q1, cb)
                   THEN {"reset_in_flight"} ELSE {}
     /\ fences' = IF Done(fail, 3) THEN w.fences
                  ELSE IF Done(fail, 2) THEN [w.fences EXCEPT ![f] = TRUE]
                  ELSE fences
     /\ semaphores_image_acquired' =
          IF Done(fail, 2) THEN w.sems ELSE semaphores_image_acquired
     /\ queue' = q1
     /\ xr' = [xr EXCEPT !.image = IF Done(fail, 1) THEN "waited" ELSE @]
     /\ phase' = IF fail = 0 THEN "hmd_views" ELSE "failed"
     /\ UNCHANGED <<frames, hmd_flip_flop, hmd_pre_render_info, views>>
     /\ HmdUnchanged

\* the views being located for the display time of the frame before
ViewsTime_previous(info) == info.predicted_display_time - 1

\* main.rs: get_views(hmd_pre_render_info.frame_state.predicted_display_time)
ViewsTime(info) == info.predicted_display_time

\* Context::get_views, called by main.rs between record_hmd and submit_hmd
get_views(fail) ==
  LET t == ViewsTime(hmd_pre_render_info)
      steps == <<[n |-> 1, c |-> <<"locate_views", t>>]>>
  IN /\ phase = "hmd_views"
     /\ fail \in 0..1
     /\ lastOp' = "get_views"
     /\ lastResult' = Result(fail)
     /\ lastError' = ErrorOf(steps, fail, "other")
     /\ lastCalls' = Attempted(steps, fail)
     /\ hmdIterCalls' = hmdIterCalls \o Attempted(steps, fail)
     /\ hazards' = {}
     /\ views' = IF fail = 0 THEN t ELSE views
     /\ phase' = IF fail = 0 THEN "hmd_submit" ELSE "failed"
     /\ UNCHANGED <<frames, fences, semaphores_image_acquired, queue, hmd_flip_flop,
                    hmd_pre_render_info, xr>>
     /\ HmdUnchanged

\* Context::submit_hmd: submission signaling the slot's fence, release_image,
\* frame end with the projection layer built from `views`
Context_submit_hmd(fail) ==
  LET info == hmd_pre_render_info
      i == info.image_index
      t == info.predicted_display_time
      f == HmdFence(i)
      cb == <<"hmd", i>>
      steps ==
        HmdSubmitRelease(cb, f, 1)
        \o <<[n |-> 3, c |-> <<"frame_end", t, <<views>>>>]>>
  IN /\ phase = "hmd_submit"
     /\ i # NoIndex
     /\ fail \in 0..3
     /\ lastOp' = "submit_hmd"
     /\ lastResult' = Result(fail)
     /\ lastError' = ErrorOf(steps, fail, "other")
     /\ lastCalls' = Attempted(steps, fail)
     /\ hmdIterCalls' = hmdIterCalls \o Attempted(steps, fail)
     /\ hazards' = {}
     /\ queue' = IF Done(fail, 1) THEN Append(queue, Submission(cb, f, NoSem, "hmd"))
                 ELSE queue
     /\ xr' = [frame_open |-> IF fail = 0 THEN FALSE ELSE xr.frame_open,
               ends |-> IF fail = 0 THEN xr.ends + 1 ELSE xr.ends,
               image |-> IF Done(fail, 2) THEN "released" ELSE xr.image]
     /\ phase' = IF fail = 0 THEN "idle" ELSE "failed"
     /\ hmd_flip_flop' = IF fail = 0 THEN (hmd_flip_flop + 1) % DoubleCount
                         ELSE hmd_flip_flop
     /\ UNCHANGED <<frames, fences, semaphores_image_acquired, hmd_pre_render_info, views>>
     /\ HmdUnchanged

\* ------------------------------------------------------------------ resize
BuildCalls(failure) ==
  LET last == IF failure = "none" THEN Len(BuildOrder) ELSE BuildPos(failure)
  IN [i \in 1..last |-> <<BuildOrder[i]>>]

\* Context::resize / State::resize: drain the queue, destroy the swapchain the
\* struct holds, build the next one and store it only if the build succeeded
resize(new_caps, new_wanted, drain_fails, failure, at) ==
  LET w == wait_idle(fences, semaphores_image_acquired, queue)
      built == SwapchainWindow_new(new_caps, new_wanted, failure, at)
      destroyed == [swapchains EXCEPT ![cur] = SwapchainWindow_destroy(@)]
      drain == <<[n |-> 1, c |-> <<"queue_wait_idle", Len(queue)>>]>>
  IN /\ phase = "idle"
     /\ frames < MaxFrames
     /\ frames' = frames + 1
     /\ hmd_pre_render_info' = None
     /\ views' = NoIndex
     /\ hmdIterCalls' = <<>>
     /\ caps' = new_caps
     /\ wanted' = new_wanted
     /\ lastOp' = "resize"
     /\ IF drain_fails
        THEN /\ lastCalls' = Attempted(drain, 1)
             /\ lastResult' = "err"
             /\ lastError' = [kind |-> "other", at |-> 1]
             /\ hazards' = {}
             /\ phase' = "failed"
             /\ UNCHANGED <<fences, semaphores_image_acquired, queue, swapchains, cur>>
        ELSE /\ lastCalls' = Attempted(drain \o DestroyCalls(cur), 0) \o BuildCalls(failure)
             /\ lastResult' = IF built.ok THEN "ok" ELSE "err"
             /\ lastError' =
                  IF built.ok THEN NoError
                  ELSE [kind |-> "other",
                        at |-> Len(drain) + Len(DestroyCalls(cur)) + BuildPos(failure)]
             /\ hazards' = IF w.queue # <<>> THEN {"destroy_in_flight"} ELSE {}
             /\ fences' = w.fences
             /\ semaphores_image_acquired' = w.sems
             /\ queue' = w.queue
             /\ swapchains' = Append(destroyed, built)
             /\ cur' = IF built.ok THEN Len(swapchains) + 1 ELSE cur
             /\ phase' = IF built.ok THEN "idle" ELSE "failed"
     /\ UNCHANGED <<variant, mesh_buffers, mesh, front_back, acquire_calls, last_used_acquire_semaphore,
                    window_pre_render_info, xr, window_flip_flop, hmd_flip_flop>>

\* ------------------------------------------------------------------- Ctrl-C
\* the results of request_exit the loop does not treat as fatal
request_exit_swallowed_onlyOk(result) == result = "ok"

request_exit_swallowed(result) == result \in {"ok", "ERROR_SESSION_NOT_RUNNING"}

RequestExitResults == {"ok", "ERROR_SESSION_NOT_RUNNING", "other"}

\* main, Event::MainEventsCleared with the Ctrl-C flag set: control_flow is set
\* to Exit, request_exit is called, its result is matched and the handler
\* returns before the event polling and every frame operation
main_ctrlc(result) ==
  /\ variant = "context"
  /\ phase = "idle"
  /\ lastOp' = "ctrlc"
  /\ lastCalls' = << <<"request_exit", result>> >>
  /\ hazards' = {}
  /\ IF request_exit_swallowed(result)
     THEN /\ phase' = "exiting"
          /\ lastResult' = "ok"
          /\ lastError' = NoError
     ELSE /\ phase' = "failed"
          /\ lastResult' = "panic"
          /\ lastError' = [kind |-> "other", at |-> 1]
  /\ UNCHANGED <<variant, mesh_buffers, mesh, front_back, frames, caps, wanted, last_used_acquire_semaphore, acquire_calls,
                 semaphores_image_acquired, fences, queue, swapchains, cur,
                 window_pre_render_info, hmd_pre_render_info, xr, window_flip_flop,
                 hmd_flip_flop, views, hmdIterCalls>>

\* -------------------------------------------------------------------- drop
\* the fields that are not ManuallyDrop (session, stage, the HMD swapchain of
\* the runtime) are dropped by the compiler after the body of drop returned
FieldDrops ==
  <<[n |-> 2, c |-> <<"drop_session">>],
    [n |-> 2, c |-> <<"drop_stage">>],
    [n |-> 2, c |-> <<"drop_hmd_swapchain">>]>>

\* Context::new: the objects it creates for the two targets besides the window
\* swapchain, each named by the call that destroys an object of its kind
ContextNew_created ==
  {<<"destroy_render_pass", "hmd">>,
   <<"destroy_image_views", "hmd">>,
   <<"destroy_framebuffers", "hmd">>,
   <<"destroy_depth_image", "hmd">>,
   <<"destroy_fences_rendering_finished", "hmd">>,
   <<"destroy_render_pass", "window">>,
   <<"destroy_semaphores_image_acquired", "window">>,
   <<"destroy_semaphores_rendering_finished", "window">>,
   <<"destroy_fences_rendering_finished", "window">>}

\* wrap_vulkan::Context::drop: the surface, the device, the physical device,
\* the instance and the entry are dropped; the command pool the context created
\* is not among them
VulkanContext_drop ==
  <<[n |-> 2, c |-> <<"drop_vulkan">>],
    [n |-> 2, c |-> <<"destroy_surface">>],
    [n |-> 2, c |-> <<"drop_device">>],
    [n |-> 2, c |-> <<"drop_physical_device">>],
    [n |-> 2, c |-> <<"drop_instance">>],
    [n |-> 2, c |-> <<"drop_entry">>]>>

\* Context::drop / State::drop: wait_idle().unwrap(), then the swapchain, the
\* semaphores, the fences and the render pass are destroyed.  A panic of the
\* unwrap unwinds through the fields when the drop is the normal exit and
\* aborts when the drop itself runs during the unwinding of a frame operation
Context_drop(drain_fails) ==
  LET w == wait_idle(fences, semaphores_image_acquired, queue)
      drain == <<[n |-> 1, c |-> <<"queue_wait_idle", Len(queue)>>]>>
      rest ==
        <<[n |-> 2, c |-> <<"destroy_semaphores_image_acquired", "window">>],
          [n |-> 2, c |-> <<"destroy_semaphores_rendering_finished", "window">>],
          [n |-> 2, c |-> <<"destroy_fences_rendering_finished", "window">>],
          [n |-> 2, c |-> <<"destroy_render_pass", "window">>]>>
        \o VulkanContext_drop
        \o <<[n |-> 2, c |-> <<"drop_openxr">>]>>
  IN /\ phase \in {"idle", "exiting", "failed"}
     /\ phase' = "dropped"
     /\ lastOp' = "drop"
     /\ IF drain_fails
        THEN /\ lastCalls' = Attempted(drain, 1)
                             \o (IF phase # "failed" THEN Attempted(FieldDrops, 0) ELSE <<>>)
             /\ lastResult' = "panic"
             /\ lastError' = [kind |-> "other", at |-> 1]
             /\ hazards' = {}
             /\ UNCHANGED <<fences, semaphores_image_acquired, queue, swapchains>>
        ELSE /\ lastCalls' = Attempted(drain \o DestroyCalls(cur) \o rest \o FieldDrops, 0)
             /\ lastResult' = "ok"
             /\ lastError' = NoError
             /\ hazards' = IF w.queue # <<>> THEN {"destroy_in_flight"} ELSE {}
             /\ fences' = w.fences
             /\ semaphores_image_acquired' = w.sems
             /\ queue' = w.queue
             /\ swapchains' = [swapchains EXCEPT ![cur] = SwapchainWindow_destroy(@)]
     \* the frame loop's locals go out of scope with the closure
     /\ window_pre_render_info' = None
     /\ hmd_pre_render_info' = None
     /\ views' = NoIndex
     /\ hmdIterCalls' = <<>>
     /\ UNCHANGED <<variant, mesh_buffers, mesh, front_back, acquire_calls, frames, caps, wanted, last_used_acquire_semaphore,
                    cur, xr, window_flip_flop, hmd_flip_flop>>

\* ------------------------------------------------------------ specification
Next ==
  \/ frame_wait_call
  \/ \E result \in RequestExitResults : main_ctrlc(result)
  \/ \E fail \in 0..3, sr \in BOOLEAN, i \in 0..(HmdImageCount - 1) :
       /\ sr \/ i = 0
       /\ State_pre_render_hmd(fail, sr, i)
  \/ \E fail \in 0..3, sr \in BOOLEAN, i \in 0..(HmdImageCount - 1) :
       /\ sr \/ i = 0
       /\ Context_pre_render_hmd(fail, sr, i)
  \/ \E fail \in 0..1 : State_render_hmd_skip(fail)
  \/ \E fail \in 0..10 : State_render_hmd(fail)
  \/ \E fail \in 0..6 : Context_record_hmd(fail)
  \/ \E fail \in 0..1 : get_views(fail)
  \/ \E fail \in 0..3 : Context_submit_hmd(fail)
  \/ \E fail \in 0..1, err \in ErrorKinds, i \in 0..(swapchains[cur].elements - 1) :
       /\ fail = 0 \/ i = 0
       /\ fail # 0 \/ err = "other"
       /\ pre_render_window(fail, err, i)
  \* only acquire_next_image and queue_present report the surface out of date
  \/ \E fail \in 0..7, err \in ErrorKinds :
       /\ fail = 7 \/ err = "other"
       /\ State_render_window(fail, err)
  \/ State_render_window_panic
  \/ \E fail \in 0..5, err \in ErrorKinds :
       /\ fail = 5 \/ err = "other"
       /\ Context_render_window(fail, err)
  \/ \E c \in CapsSet, w \in WantedExtents, drain_fails \in BOOLEAN,
        failure \in BuildFailures, at \in 0..(WantedImages - 1) :
       /\ at < image_count(c)
       /\ at = 0 \/ failure \in {"create_image_view", "create_framebuffer"}
       /\ drain_fails => failure = "none"
       /\ resize(c, w, drain_fails, failure, at)
  \/ \E drain_fails \in BOOLEAN : Context_drop(drain_fails)
  \/ GpuComplete

Spec == Init /\ [][Next]_vars

\* --------------------------------------------- a caller that does not give up
\* the frame operations return Result<()>: a caller other than main.rs may
\* handle the Err of a frame operation and go on with the next iteration
caller_continues ==
  /\ phase = "failed"
  /\ lastResult = "err"
  /\ frames < MaxFrames
  /\ lastOp \in {"pre_render_hmd", "render_hmd", "record_hmd", "get_views", "submit_hmd",
                  "pre_render_window", "render_window"}
  /\ phase' = "idle"
  /\ UNCHANGED <<variant, mesh_buffers, mesh, front_back, frames, caps, wanted, last_used_acquire_semaphore, acquire_calls,
                 semaphores_image_acquired, fences, queue, swapchains, cur,
                 window_pre_render_info, hmd_pre_render_info, xr, window_flip_flop,
                 hmd_flip_flop, views, lastOp, lastResult, lastError, lastCalls, hazards,
                 hmdIterCalls>>

NextRetry ==
  \/ Next
  \/ caller_continues

SpecRetry == Init /\ [][NextRetry]_vars

\* ------------------------------------------------------------------ claims
\* C1: fence-gated reuse.  No command buffer is reset while a submission that
\* references it is still pending, and every reset_command_buffer is preceded,
\* in the same frame operation, by a wait on the fence paired with it.
C1_FenceGatedReuse ==
  /\ "reset_in_flight" \notin hazards
  /\ \A i \in Calls("reset_command_buffer") :
       \E j \in Calls("wait_for_fences") :
         j < i /\ lastCalls[j][2] = PairedFence(lastCalls[i][2])

\* C2: acquire-semaphore ring safety.  With a ring as long as the window image
\* count, the semaphore pre_render_window hands to acquire_next_image has no
\* outstanding signal and no submission whose wait on it is still pending.
C2_AcquireRingSafety ==
  (lastOp = "pre_render_window" /\ RingLen = swapchains[cur].elements)
    => "acquire_semaphore_busy" \notin hazards

\* C3: ring advancement.  Every pre_render_window call, failing or not, moves
\* the cursor by one modulo the ring length; no other step moves it; it stays
\* in 0..RingLen-1 and is the number of calls made so far modulo the ring
\* length, so that RingLen calls bring it back to where it was.
C3_RingAdvancement ==
  [][/\ last_used_acquire_semaphore' \in 0..(RingLen' - 1)
     /\ last_used_acquire_semaphore' = acquire_calls' % RingLen'
     /\ IF lastOp' = "pre_render_window" /\ frames' = frames + 1
        THEN last_used_acquire_semaphore' =
               (last_used_acquire_semaphore + 1) % RingLen
        ELSE last_used_acquire_semaphore' = last_used_acquire_semaphore]_vars

\* a failing acquire completes a full turn of the ring
C3_Witness ==
  /\ lastOp = "pre_render_window"
  /\ lastResult = "err"
  /\ acquire_calls = RingLen
  /\ last_used_acquire_semaphore = 0

\* the calls named `name` in a call log
CallsIn(calls, name) == {k \in 1..Len(calls) : calls[k][1] = name}

\* the step is a render_window call (of either layer)
RenderWindowStep == phase = "win_render" /\ lastOp' = "render_window"

\* C4: window submission wiring.  The submission of every render_window call
\* waits on the semaphore the preceding pre_render_window handed to
\* acquire_next_image and signals the rendering-finished semaphore and fence
\* of the slot of the acquired image index.
C4_WindowSubmissionWiring ==
  [][RenderWindowStep =>
       \A s \in CallsIn(lastCalls', "queue_submit") :
         /\ lastCalls'[s][3] = window_pre_render_info.image_acquired_semaphore
         /\ lastCalls = <<<<"acquire_next_image", lastCalls'[s][3]>>>>
         /\ lastCalls'[s][4] = SlotSemaphore(window_pre_render_info.image_index)
         /\ lastCalls'[s][5] = WinFence(window_pre_render_info.image_index)]_vars

\* C5: window ordering within a frame.  A submission is issued only after the
\* acquire that was given the semaphore it waits on; present is issued only
\* after a submission that went through and signals the one semaphore present
\* waits on; a failing submission ends render_window with the error and
\* without a present.
C5_WindowOrdering ==
  [][RenderWindowStep =>
       LET calls == lastCalls'
           submits == CallsIn(calls, "queue_submit")
           presents == CallsIn(calls, "queue_present")
           Queued(s) ==
             /\ queue' # <<>>
             /\ queue'[Len(queue')].cb = calls[s][2]
             /\ queue'[Len(queue')].wait = calls[s][3]
       IN /\ \A s \in submits :
               /\ lastOp = "pre_render_window" /\ lastResult = "ok"
               /\ lastCalls = <<<<"acquire_next_image", calls[s][3]>>>>
          /\ Cardinality(presents) <= 1
          /\ \A pr \in presents :
               \E s \in submits : s < pr /\ calls[s][4] = calls[pr][2] /\ Queued(s)
          /\ \A s \in submits :
               ~Queued(s) => presents = {} /\ lastResult' = "err"]_vars

\* a render_window call whose submission failed
C5_Witness ==
  /\ lastOp = "render_window"
  /\ lastResult = "err"
  /\ lastCalls # <<>>
  /\ lastCalls[Len(lastCalls)][1] = "queue_submit"

\* C6: HMD skip path.  In an iteration the runtime told not to render, the
\* only calls are frame_wait, frame_begin and frame_end: no image is
\* acquired, no fence is waited, reset or submitted, nothing is recorded or
\* drawn, and the frame is ended with an empty layer list.
C6_HmdSkipPath ==
  (hmd_pre_render_info # None /\ ~hmd_pre_render_info.should_render) =>
    /\ \A k \in 1..Len(hmdIterCalls) :
         hmdIterCalls[k][1] \in {"frame_wait", "frame_begin", "frame_end"}
    /\ \A k \in IterCalls("frame_end") : hmdIterCalls[k][3] = <<>>
    /\ xr.image # "acquired"
    /\ (phase = "idle" /\ lastResult = "ok") => IterCalls("frame_end") # {}

\* a skipped iteration that ran to its end
C6_Witness ==
  /\ hmd_pre_render_info # None
  /\ ~hmd_pre_render_info.should_render
  /\ phase = "idle"
  /\ lastResult = "ok"
  /\ IterCalls("frame_end") # {}

\* C7: HMD frame boundary pairing.  A begun frame is never ended twice, no
\* frame is open when the next iteration may start, and an iteration in which
\* no call failed, rendering or skipping, has ended its frame exactly once.
C7_HmdFramePairing ==
  /\ xr.ends <= 1
  /\ phase = "idle" => ~xr.frame_open
  /\ (phase = "idle" /\ hmd_pre_render_info # None) =>
       /\ xr.ends = 1
       /\ Cardinality(IterCalls("frame_begin")) = 1
       /\ Cardinality(IterCalls("frame_end")) = 1

\* a rendering iteration that ran to its end
C7_Witness ==
  /\ hmd_pre_render_info # None
  /\ hmd_pre_render_info.should_render
  /\ phase = "idle"
  /\ lastOp \in {"render_hmd", "submit_hmd"}
  /\ xr.ends = 1

DestroyNames ==
  {"destroy_image_views", "destroy_framebuffers", "destroy_swapchain",
   "destroy_depth_image"}

Destroys == {k \in 1..Len(lastCalls) : lastCalls[k][1] \in DestroyNames}

\* C8: resize drains before destroying.  Every destroy call of resize comes
\* after queue_wait_idle returned; at that moment nothing is pending and
\* every fence is signaled; a failing drain leaves the swapchain untouched.
C8_ResizeDrains ==
  lastOp = "resize" =>
    /\ \A d \in Destroys : \E w \in Calls("queue_wait_idle") : w < d
    /\ Destroys # {} =>
         /\ "destroy_in_flight" \notin hazards
         /\ queue = <<>>
         /\ \A f \in DOMAIN fences : fences[f]
    /\ (lastResult = "err" /\ Len(lastCalls) = 1) =>
         /\ Destroys = {}
         /\ \A k \in Kinds : swapchains[cur].destroyed[k] = 0

\* a resize that found submitted work pending and destroyed the swapchain
C8_Witness ==
  /\ lastOp = "resize"
  /\ Destroys # {}
  /\ lastCalls[1][1] = "queue_wait_idle"
  /\ lastCalls[1][2] > 0

\* C9: per-frame resources track the image count.  The number of window
\* per-frame resource sets and the ring length equal the image count of the
\* swapchain in use, and every acquired image index has a resource set.
C9_PerFrameTracksImageCount ==
  /\ PerFrameLen = swapchains[cur].elements
  /\ RingLen = swapchains[cur].elements
  /\ window_pre_render_info # None =>
       window_pre_render_info.image_index < PerFrameLen

\* the handles of every build are destroyed at most once, those of a build
\* the struct no longer holds exactly once, and all of them after drop
HandleBalance ==
  \A g \in 1..Len(swapchains) : \A k \in Kinds :
    /\ swapchains[g].destroyed[k] <= swapchains[g].created[k]
    /\ (g # cur \/ (phase = "dropped" /\ lastResult = "ok")) =>
         swapchains[g].destroyed[k] = swapchains[g].created[k]

\* the step is the second of two resize calls in a row with the same wanted
\* extent under the same surface capabilities
SecondResizeStep ==
  /\ lastOp = "resize" /\ lastResult = "ok"
  /\ lastOp' = "resize" /\ frames' = frames + 1
  /\ caps' = caps /\ wanted' = wanted

\* C10: resize idempotence and handle balance.  Two resize calls in a row
\* with the same extent and capabilities yield swapchains of the same image
\* count and extent, and creates equal destroys for every build.
C10_ResizeIdempotentBalanced ==
  /\ [](HandleBalance)
  /\ [][SecondResizeStep =>
          /\ lastResult' = "ok"
          /\ swapchains'[cur'].elements = swapchains[cur].elements
          /\ swapchains'[cur'].extent = swapchains[cur].extent]_vars

\* ---------------------------------------------------- swapchain extent
\* SwapchainRelated::new (wrap_vulkan/swapchain.rs): the extent of the window
\* swapchain built from the window size
SwapchainRelated_extent(c, w) ==
  IF c.current_extent.height = U32_MAX
  THEN c.current_extent
  ELSE Ext(Max(c.min_image_extent.width, Min(c.max_image_extent.width, w.width)),
           Max(c.min_image_extent.height, Min(c.max_image_extent.height, w.height)))

\* State::new (state/wrap_vulkan.rs): the same choice written inline
State_new_extent(c, w) ==
  IF c.current_extent.height = U32_MAX
  THEN c.current_extent
  ELSE Ext(Max(c.min_image_extent.width, Min(c.max_image_extent.width, w.width)),
           Max(c.min_image_extent.height, Min(c.max_image_extent.height, w.height)))

\* current extents a surface reports: undefined, or within its min/max
ExtentCurrents ==
  {Ext(U32_MAX, U32_MAX), Ext(1, 1), Ext(2, 3), Ext(4, 4)}

ExtentCapsSet == {Caps(m, e) : m \in {0, 2}, e \in ExtentCurrents}

ExtentWanted == {Ext(w, h) : w \in {0, 2, 5}, h \in {0, 3, 5}}

\* what the extent specification leaves alone
ExtentOthers ==
  <<variant, mesh_buffers, mesh, front_back, frames, last_used_acquire_semaphore, acquire_calls,
    semaphores_image_acquired, fences, queue, cur, window_pre_render_info,
    hmd_pre_render_info, xr, window_flip_flop, hmd_flip_flop, views,
    lastResult, lastError, lastCalls, hazards, hmdIterCalls>>

\* a window of some size on a surface of some capabilities, nothing built yet
ExtentInit ==
  /\ variant = "state"
  /\ phase = "extent"
  /\ frames = 0
  /\ caps \in ExtentCapsSet
  /\ wanted \in ExtentWanted
  /\ last_used_acquire_semaphore = 0
  /\ acquire_calls = 0
  /\ semaphores_image_acquired = <<>>
  /\ fences = <<>>
  /\ queue = <<>>
  /\ swapchains = <<>>
  /\ cur = 1
  /\ window_pre_render_info = None
  /\ hmd_pre_render_info = None
  /\ xr = [frame_open |-> FALSE, ends |-> 0, image |-> "released"]
  /\ window_flip_flop = 0
  /\ hmd_flip_flop = 0
  /\ views = NoIndex
  /\ lastOp = "none"
  /\ lastResult = "ok"
  /\ lastError = NoError
  /\ lastCalls = <<>>
  /\ hazards = {}
  /\ hmdIterCalls = <<>>
  /\ mesh_buffers = None
  /\ mesh = None
  /\ front_back = None

\* the swapchain being (re)built with the extent one of the layers chooses
ChooseExtent(name, extent) ==
  /\ phase = "extent"
  /\ lastOp' = name
  /\ swapchains' = <<[extent |-> extent]>>
  /\ UNCHANGED <<phase, caps, wanted>>
  /\ UNCHANGED ExtentOthers

Extent_get_allowed_extend ==
  ChooseExtent("get_allowed_extend", get_allowed_extend(caps, wanted))

Extent_SwapchainRelated_new ==
  ChooseExtent("SwapchainRelated::new", SwapchainRelated_extent(caps, wanted))

Extent_State_new ==
  ChooseExtent("State::new", State_new_extent(caps, wanted))

ExtentNext ==
  \/ Extent_get_allowed_extend
  \/ Extent_SwapchainRelated_new
  \/ Extent_State_new

SpecExtent == ExtentInit /\ [][ExtentNext]_vars

WithinExtent(e, c) ==
  /\ c.min_image_extent.width <= e.width
  /\ e.width <= c.max_image_extent.width
  /\ c.min_image_extent.height <= e.height
  /\ e.height <= c.max_image_extent.height

\* C11: extent clamping.  The extent chosen for the window swapchain lies
\* between the surface's min_image_extent and max_image_extent in both
\* components, for every wanted extent and every reported capability, an
\* undefined current extent included.
C11_ExtentClamped ==
  \A g \in 1..Len(swapchains) : WithinExtent(swapchains[g].extent, caps)

\* C12: out-of-date is recoverable.  When acquire_next_image or queue_present
\* reports the surface out of date, the operation returns an error and the
\* frame loop goes on (to resize and retry the frame) instead of terminating.
C12_OutOfDateRecoverable ==
  lastError.kind = "ERROR_OUT_OF_DATE_KHR" =>
    /\ lastResult = "err"
    /\ phase # "failed"

FallibleOps ==
  {"pre_render_window", "render_window", "pre_render_hmd", "record_hmd",
   "get_views", "submit_hmd", "render_hmd", "resize"}

\* C13: failure propagation.  A failing GPU or runtime call inside a frame
\* operation or resize makes the operation return an error, and the failing
\* call is the last call the operation issues; an operation returns an error
\* only if one of its calls failed.
C13_FailurePropagation ==
  lastOp \in FallibleOps =>
    /\ lastError.at # 0 => lastResult = "err" /\ Len(lastCalls) = lastError.at
    /\ lastResult = "err" => lastError.at # 0
    /\ lastResult = "ok" => lastError = NoError

\* a window frame that failed in the middle of its recording
C13_Witness ==
  /\ lastOp = "render_window"
  /\ lastResult = "err"
  /\ lastCalls[Len(lastCalls)][1] = "end_command_buffer"
  /\ lastError.at = Len(lastCalls)

\* a fence as the CPU and the queue see it
FenceState(fs, q, f) ==
  IF fs[f] THEN "signaled" ELSE IF FencePending(q, f) THEN "pending" ELSE "unsignaled"

\* the step is a frame operation working on a slot
SlotOpStep ==
  /\ phase \in {"win_render", "hmd_render", "hmd_record", "hmd_submit"}
  /\ phase' # phase
  /\ lastOp' \in {"render_window", "render_hmd", "record_hmd", "submit_hmd"}

\* the rendering-finished fence of the slot the operation works on
OpFences ==
  IF phase = "win_render"
  THEN {IF variant = "state" THEN WinFence(window_pre_render_info.image_index)
        ELSE DoubleFence(window_flip_flop)}
  ELSE IF hmd_pre_render_info.image_index # NoIndex
       THEN {HmdFence(hmd_pre_render_info.image_index)}
       ELSE {}

WindowFrameStart ==
  \E fail \in 0..1, err \in ErrorKinds, i \in 0..(swapchains[cur].elements - 1) :
    pre_render_window(fail, err, i)

\* C15: no mutual stalling.  While the HMD path is blocked in the runtime's
\* frame_wait, a window frame can still be acquired, submitted and presented.
C15_NoMutualStalling ==
  (phase = "frame_wait" /\ frames < MaxFrames) => ENABLED WindowFrameStart

\* C16: wait_and_reset.  It returns success only for a fence that was signaled
\* or became signaled while it waited, and leaves that fence unsignaled; no
\* other fence loses its signal; when the wait fails, the fence is not reset
\* and the operation returns the error.
C16_WaitAndReset ==
  [][\A k \in CallsIn(lastCalls', "wait_for_fences") :
       LET f == lastCalls'[k][2]
           calls == lastCalls'
       IN (lastCalls' # lastCalls \/ lastOp' # lastOp) =>
            /\ k < Len(calls) =>
                 /\ FenceState(fences, queue, f) \in {"signaled", "pending"}
                 /\ calls[k + 1] = <<"reset_fences", f>>
            /\ (k + 1 < Len(calls) \/ lastResult' = "ok") => ~fences'[f]
            /\ k = Len(calls) =>
                 /\ lastResult' = "err"
                 /\ fences'[f] = fences[f]
            /\ \A g \in DOMAIN fences \ {f} : fences[g] => fences'[g]]_vars

\* a frame operation went through wait_and_reset and left the fence unsignaled
C16_Witness ==
  /\ lastCalls # <<>>
  /\ \E k \in Calls("wait_for_fences") :
       /\ k + 1 \in Calls("reset_fences")
       /\ ~fences[lastCalls[k][2]]
       /\ Calls("queue_submit") = {}
  /\ lastResult = "err"

\* ---------------------------------------------------------------------------
\* C17: in a completed teardown every object that depends on the Vulkan device
\* (swapchain, image views, framebuffers, depth image, semaphores, fences, render
\* pass, VR session, reference space, runtime swapchain) is destroyed before the
\* Vulkan device, and the Vulkan device is destroyed before the OpenXR instance
DeviceDependent ==
  DestroyNames \cup {"destroy_semaphores_image_acquired", "destroy_semaphores_rendering_finished",
                     "destroy_fences_rendering_finished", "destroy_render_pass",
                     "drop_session", "drop_stage", "drop_hmd_swapchain"}

C17_OrderedTeardown ==
  (lastOp = "drop" /\ lastResult = "ok") =>
     /\ Calls("drop_vulkan") # {}
     /\ Calls("drop_openxr") # {}
     /\ \A k \in 1..Len(lastCalls) :
          lastCalls[k][1] \in DeviceDependent => \A v \in Calls("drop_vulkan") : k < v
     /\ \A v \in Calls("drop_vulkan"), o \in Calls("drop_openxr") : v < o

\* ---------------------------------------------------------------------------
\* C18: a failure of the drain at teardown does not abort the teardown: the drop
\* does not panic and the remaining destruction steps are still carried out
C18_BestEffortTeardown ==
  lastOp = "drop" =>
     /\ lastResult # "panic"
     /\ Destroys # {}
     /\ Calls("drop_vulkan") # {}
     /\ Calls("drop_openxr") # {}

\* ---------------------------------------------------------------------------
\* C19: on a Ctrl-C shutdown a request_exit that returns
\* ERROR_SESSION_NOT_RUNNING is swallowed like a success and the loop exits
\* normally, every other error of request_exit is fatal, and after a non-fatal
\* request_exit no HMD or window frame operation runs: the only call of the
\* iteration is request_exit and the only operation that follows is the teardown
C19_CtrlCExit ==
  /\ [](lastOp = "ctrlc" =>
          /\ Len(lastCalls) = 1
          /\ lastCalls[1][1] = "request_exit"
          /\ lastCalls[1][2] \in {"ok", "ERROR_SESSION_NOT_RUNNING"} =>
                (lastResult = "ok" /\ phase = "exiting")
          /\ lastCalls[1][2] = "other" => (lastResult = "panic" /\ phase = "failed"))
  /\ [][phase = "exiting" => lastOp' \in {"ctrlc", "drop"}]_vars

C19_Witness ==
  /\ lastOp = "ctrlc"
  /\ lastCalls[1][2] = "ERROR_SESSION_NOT_RUNNING"
  /\ phase = "exiting"
  /\ frames > 0

\* ---------------------------------------------------------------------------
\* C20: per-slot fence wait count.  Every render_window call waits exactly once,
\* on the rendering-finished fence of the slot of its acquired image index and
\* on no other fence, and resets only that fence, at most once and exactly once
\* when the call went through; hence over any sequence of calls the fence of
\* slot i is waited once per call whose acquired index is i
C20_PerSlotFenceWaitCount ==
  [][RenderWindowStep =>
       LET calls == lastCalls'
           slot == WinFence(window_pre_render_info.image_index)
           waits == CallsIn(calls, "wait_for_fences")
           resets == CallsIn(calls, "reset_fences")
       IN /\ Cardinality(waits) = 1
          /\ \A w \in waits : calls[w][2] = slot
          /\ Cardinality(resets) <= 1
          /\ \A r \in resets : calls[r][2] = slot
          /\ lastResult' = "ok" => Cardinality(resets) = 1]_vars

\* ---------------------------------------------------------------------------
\* C21: bounded fence wait.  Whenever a frame operation is about to wait on the
\* rendering-finished fence of a slot, that fence is signaled or is the signal
\* fence of a submission already issued, so that the wait returns once the GPU
\* completed its work; this also after an earlier frame on the slot failed
\* between the reset of the fence and the submission
WaitedFence ==
  IF phase \in {"hmd_render", "hmd_record"} /\ hmd_pre_render_info.image_index # NoIndex
  THEN {HmdFence(hmd_pre_render_info.image_index)}
  ELSE IF phase = "win_render" /\ variant = "state"
          /\ window_pre_render_info.image_index < PerFrameLen
  THEN {WinFence(window_pre_render_info.image_index)}
  ELSE {}

C21_BoundedFenceWait ==
  \A f \in WaitedFence : fences[f] \/ FencePending(queue, f)

\* ---------------------------------------------------------------------------
\* C22: submission fence discipline.  The fence handed to a queue_submit of a
\* frame operation is, when the submission is made, unsignaled and not the
\* signal fence of an earlier submission the GPU has not completed
C22_SubmissionFenceDiscipline ==
  [][\A s \in CallsIn(lastCalls', "queue_submit") :
       LET f == lastCalls'[s][5]
           \* the submission failed iff the operation ended with it
           went == ~(lastResult' = "err" /\ s = Len(lastCalls'))
           before == IF went THEN SubSeq(queue', 1, Len(queue') - 1) ELSE queue'
       \* a step of the GPU leaves the position of the frame loop alone
       IN phase' # phase =>
            /\ ~fences'[f]
            /\ ~FencePending(before, f)]_vars

\* ---------------------------------------------------------------------------
\* C23: window frame cycle.  The operation that follows a successful
\* pre_render_window is the matching render_window; it presents at most once
\* and only the image index that acquire returned, exactly once when it went
\* through; nothing but render_window presents, and pre_render_window is not
\* called again while an acquired image waits for its render_window
C23_WindowFrameCycle ==
  [][phase' # phase =>
       LET presents == CallsIn(lastCalls', "queue_present")
       IN /\ phase = "win_render" =>
               /\ lastOp' = "render_window"
               /\ lastOp = "pre_render_window" /\ lastResult = "ok"
               /\ lastResult' = "ok" => Cardinality(presents) = 1
          /\ presents # {} =>
               /\ RenderWindowStep
               /\ Cardinality(presents) = 1
               /\ \A p \in presents :
                    lastCalls'[p][3] = window_pre_render_info.image_index
          /\ lastOp' = "pre_render_window" =>
               (phase # "win_render" /\ window_pre_render_info = None)]_vars

\* the second window frame went through and presented image 1
C23_Witness ==
  /\ lastOp = "render_window"
  /\ lastResult = "ok"
  /\ acquire_calls = 2
  /\ \E p \in Calls("queue_present") : lastCalls[p][3] = 1

\* ---------------------------------------------------------------------------
\* C24: HMD image protocol.  A runtime swapchain image is acquired only when
\* the runtime said should_render and only after the previous one was released;
\* within an iteration wait_image comes after the acquire and before the wait on
\* the slot's fence and before the recording, release_image comes after the
\* queue submission and before the frame end, and an iteration that went
\* through released its image exactly once
HmdIterationDone ==
  phase = "idle" /\ lastOp \in {"render_hmd", "submit_hmd"} /\ lastResult = "ok"

HmdImageOrder ==
  /\ (lastOp = "pre_render_hmd" /\ lastResult = "ok" /\ Calls("acquire_image") # {})
       => hmd_pre_render_info.should_render
  /\ Cardinality(IterCalls("acquire_image")) <= 1
  /\ Cardinality(IterCalls("release_image")) <= 1
  /\ \A wi \in IterCalls("wait_image") :
       \E a \in IterCalls("acquire_image") : a < wi
  /\ \A k \in IterCalls("wait_for_fences") \cup IterCalls("reset_command_buffer") :
       \E wj \in IterCalls("wait_image") : wj < k
  /\ \A r \in IterCalls("release_image") :
       /\ \E b \in IterCalls("acquire_image") : b < r
       /\ \E q \in IterCalls("queue_submit") : q < r
  /\ \A e \in IterCalls("frame_end") :
       IterCalls("acquire_image") # {} => \E rl \in IterCalls("release_image") : rl < e
  /\ (HmdIterationDone /\ IterCalls("acquire_image") # {})
       => Cardinality(IterCalls("release_image")) = 1

C24_HmdImageProtocol ==
  /\ []HmdImageOrder
  /\ [][(/\ phase' # phase
         /\ CallsIn(lastCalls', "acquire_image") # {}
         /\ ~(lastResult' = "err" /\ lastCalls'[Len(lastCalls')][1] = "acquire_image"))
        => (xr.image = "released" /\ xr'.image = "acquired")]_vars

\* the second rendered HMD iteration went through
C24_Witness ==
  /\ HmdIterationDone
  /\ frames = 2
  /\ IterCalls("release_image") # {}
  /\ hmd_pre_render_info.image_index = 1

\* ---------------------------------------------------------------------------
\* C25: late pose sampling.  In an HMD iteration the views are located after
\* the command buffer was recorded to its end and before the queue submission
\* and the frame end, for the predicted display time pre_render_hmd returned in
\* this iteration; the layer handed to frame end carries the views located in
\* this iteration, and a rendered iteration that went through located them once
C25_LatePoseSampling ==
  /\ \A lv \in IterCalls("locate_views") :
       /\ \E ec \in IterCalls("end_command_buffer") : ec < lv
       /\ hmdIterCalls[lv][2] = hmd_pre_render_info.predicted_display_time
  /\ \A q \in IterCalls("queue_submit") :
       \E lv \in IterCalls("locate_views") : lv < q
  /\ \A e \in IterCalls("frame_end") :
       hmdIterCalls[e][3] # <<>> =>
         \E lv \in IterCalls("locate_views") :
           lv < e /\ hmdIterCalls[e][3] = <<hmdIterCalls[lv][2]>>
  /\ (HmdIterationDone /\ IterCalls("acquire_image") # {})
       => Cardinality(IterCalls("locate_views")) = 1

\* the second HMD iteration was rendered through record_hmd, get_views and
\* submit_hmd
C25_Witness ==
  /\ HmdIterationDone
  /\ lastOp = "submit_hmd"
  /\ frames = 2
  /\ \E e \in IterCalls("frame_end") : hmdIterCalls[e][3] = <<2>>

\* ---------------------------------------------------------------------------
\* C26: the first wait is a no-op.  Every rendering-finished fence is created
\* signaled and with no submission; a fence loses its signal only through the
\* reset of a wait_and_reset on it; and a wait on a signaled fence returns
\* without the GPU having to complete anything.  Hence the first
\* wait_and_reset on every slot returns without a prior submission
WaitsThenResets(calls, f) ==
  \E k \in CallsIn(calls, "reset_fences") :
    /\ calls[k][2] = f
    /\ \E w \in CallsIn(calls, "wait_for_fences") : w < k /\ calls[w][2] = f

C26_FirstWaitNoOp ==
  /\ [](lastOp = "new" =>
         \A f \in DOMAIN fences : fences[f] /\ ~FencePending(queue, f))
  /\ [][\A f \in DOMAIN fences :
         /\ (fences[f] /\ ~fences'[f]) =>
              (phase' # phase /\ WaitsThenResets(lastCalls', f))
         /\ (/\ phase' # phase
             /\ fences[f]
             /\ \E w \in CallsIn(lastCalls', "wait_for_fences") : lastCalls'[w][2] = f)
            => (/\ Len(queue') >= Len(queue)
                /\ SubSeq(queue', 1, Len(queue)) = queue)]_vars

\* the first operation of the program waited on a slot's fence and went through
C26_Witness ==
  /\ frames = 1
  /\ lastResult = "ok"
  /\ WaitsThenResets(lastCalls, WinFence(0))
  /\ Len(queue) = 1

\* ---------------------------------------------------------------------------
\* C27: no double destroy, no use after destroy.  Over resize calls, failing
\* ones included, render_window calls and the drop, no swapchain handle, image
\* view, framebuffer or depth image of the window is destroyed more often than
\* it was created, and the swapchain a render_window call records into and
\* presents has none of its handles destroyed
WindowHandleKinds == {"swapchain", "image_view", "framebuffer", "depth_image"}

NoDoubleDestroy ==
  \A g \in 1..Len(swapchains) : \A k \in WindowHandleKinds :
    swapchains[g].destroyed[k] <= swapchains[g].created[k]

NoUseAfterDestroy ==
  [][RenderWindowStep =>
       \A k \in WindowHandleKinds : swapchains[cur].destroyed[k] = 0]_vars

C27_NoDoubleDestroyNoUseAfter ==
  /\ []NoDoubleDestroy
  /\ NoUseAfterDestroy

\* ---------------------------------------------------------------------------
\* C28: command pool lifetime.  No operation frees a per-frame command buffer
\* on its own, and a completed teardown destroys the command pool exactly once,
\* after the queue was drained and before the device is dropped
C28_CommandPoolLifetime ==
  /\ Calls("free_command_buffers") = {}
  /\ (lastOp = "drop" /\ lastResult = "ok") =>
       /\ Cardinality(Calls("destroy_command_pool")) = 1
       /\ \A p \in Calls("destroy_command_pool") :
            /\ \E w \in Calls("queue_wait_idle") : w < p
            /\ \A d \in Calls("drop_device") : p < d

\* ---------------------------------------------------------------------------
\* C29: shutdown balance.  After a completed drop of the Context every fence,
\* semaphore, image view, framebuffer, depth image and render pass it created
\* for the window and for the HMD has been destroyed exactly once
TargetOf(call) == IF call[1] \in DestroyNames THEN "window" ELSE call[2]

C29_ShutdownBalance ==
  (lastOp = "drop" /\ lastResult = "ok") =>
     /\ \A o \in ContextNew_created :
          Cardinality({k \in Calls(o[1]) : TargetOf(lastCalls[k]) = o[2]}) = 1
     /\ \A g \in 1..Len(swapchains) : \A k \in WindowHandleKinds :
          swapchains[g].destroyed[k] = swapchains[g].created[k]

\* ---------------------------------------------------------------------------
\* the head of the frame loop: session-state events and pre_render_hmd
\* SessionState values main.rs tells apart; SYNCHRONIZED stands for `_ => {}`
SessionStates == {"READY", "SYNCHRONIZED", "FOCUSED", "STOPPING", "EXITING"}

\* what the session specification leaves alone
SessionOthers ==
  <<variant, mesh_buffers, mesh, front_back, caps, wanted, last_used_acquire_semaphore, acquire_calls,
    semaphores_image_acquired, fences, queue, swapchains, cur,
    window_pre_render_info, hmd_pre_render_info, window_flip_flop,
    hmd_flip_flop, views, hazards, hmdIterCalls>>

\* Context::new returned: the session is created and not begun, main.rs has
\* xr_session_running = false and xr_focused = false, no event is queued
SessionInit ==
  /\ variant = "context"
  /\ phase = "session"
  /\ frames = 0
  /\ caps \in CapsSet
  /\ wanted \in WantedExtents
  /\ last_used_acquire_semaphore = 0
  /\ acquire_calls = 0
  /\ semaphores_image_acquired = <<>>
  /\ fences = <<>>
  /\ queue = <<>>
  /\ swapchains = <<>>
  /\ cur = 1
  /\ window_pre_render_info = None
  /\ hmd_pre_render_info = None
  /\ xr = [running |-> FALSE, xr_session_running |-> FALSE, xr_focused |-> FALSE,
           events |-> <<>>]
  /\ window_flip_flop = 0
  /\ hmd_flip_flop = 0
  /\ views = NoIndex
  /\ lastOp = "new"
  /\ lastResult = "ok"
  /\ lastError = NoError
  /\ lastCalls = <<>>
  /\ hazards = {}
  /\ hmdIterCalls = <<>>
  /\ mesh_buffers = None
  /\ mesh = None
  /\ front_back = None

\* the runtime queues a SessionStateChanged event
runtime_event(state) ==
  /\ phase = "session"
  /\ Len(xr.events) < MaxEvents
  /\ xr' = [xr EXCEPT !.events = Append(@, state)]
  /\ UNCHANGED <<phase, frames, lastOp, lastResult, lastError, lastCalls>>
  /\ UNCHANGED SessionOthers

\* while let Some(event) = poll_event(..): the handling of the queued events in
\* their order.  session.begin() on a running session and session.end() on a
\* session that is not running return an error, which the unwrap turns into a
\* panic; EXITING returns from the handler with control_flow = Exit
RECURSIVE PollEvents(_, _, _)
PollEvents(st, events, calls) ==
  IF events = <<>> THEN [st |-> st, calls |-> calls, outcome |-> "continue"]
  ELSE LET e == Head(events)
           s1 == [st EXCEPT !.xr_focused = FALSE]
       IN CASE e = "READY" ->
                 IF st.running
                 THEN [st |-> s1, calls |-> Append(calls, <<"begin", FALSE>>),
                       outcome |-> "panic"]
                 ELSE PollEvents([s1 EXCEPT !.running = TRUE, !.xr_session_running = TRUE],
                                 Tail(events), Append(calls, <<"begin", TRUE>>))
            [] e = "STOPPING" ->
                 IF ~st.running
                 THEN [st |-> s1, calls |-> Append(calls, <<"end", FALSE>>),
                       outcome |-> "panic"]
                 ELSE PollEvents([s1 EXCEPT !.running = FALSE, !.xr_session_running = FALSE],
                                 Tail(events), Append(calls, <<"end", TRUE>>))
            [] e = "FOCUSED" ->
                 PollEvents([s1 EXCEPT !.xr_focused = TRUE], Tail(events), calls)
            [] e = "EXITING" ->
                 [st |-> s1, calls |-> calls, outcome |-> "exit"]
            [] OTHER -> PollEvents(s1, Tail(events), calls)

\* main, Event::MainEventsCleared without Ctrl-C, up to pre_render_hmd: the
\* events are handled, then pre_render_hmd is called whatever
\* xr_session_running says; frame_wait fails on a session that is not running
main_events_cleared ==
  LET st == [running |-> xr.running, xr_session_running |-> xr.xr_session_running,
             xr_focused |-> xr.xr_focused]
      r == PollEvents(st, xr.events, <<>>)
      waits == r.outcome = "continue"
      calls == IF waits THEN Append(r.calls, <<"frame_wait", r.st.running>>)
               ELSE r.calls
  IN /\ phase = "session"
     /\ frames < MaxFrames
     /\ frames' = frames + 1
     /\ lastOp' = "main_events_cleared"
     /\ lastCalls' = calls
     /\ xr' = [running |-> r.st.running, xr_session_running |-> r.st.xr_session_running,
               xr_focused |-> r.st.xr_focused, events |-> <<>>]
     /\ IF r.outcome = "exit"
        THEN /\ phase' = "exiting"
             /\ lastResult' = "ok"
             /\ lastError' = NoError
        ELSE IF r.outcome = "panic" \/ ~r.st.running
        THEN /\ phase' = "failed"
             /\ lastResult' = "panic"
             /\ lastError' = [kind |-> "other", at |-> Len(calls)]
        ELSE /\ phase' = "session"
             /\ lastResult' = "ok"
             /\ lastError' = NoError
     /\ UNCHANGED SessionOthers

SessionNext ==
  \/ \E state \in SessionStates : runtime_event(state)
  \/ main_events_cleared

SpecSession == SessionInit /\ [][SessionNext]_vars

\* C30: HMD frames only while the session runs.  Whatever session-state events
\* arrived in whatever order, an iteration of the frame loop calls
\* pre_render_hmd, that is frame_wait, only on a session that READY has begun
\* and STOPPING has not ended
C30_HmdFramesOnlyWhileRunning ==
  lastOp = "main_events_cleared" =>
    \A k \in Calls("frame_wait") : lastCalls[k][2]

\* ---------------------------------------------------------------------------
\* the window surface and the build of the window swapchain on it
SurfaceFormat(f, cs) == [format |-> f, color_space |-> cs]

SurfaceFormats ==
  {SurfaceFormat("R8G8B8A8_UNORM", "SRGB_NONLINEAR"),
   SurfaceFormat("B8G8R8A8_UNORM", "SRGB_NONLINEAR"),
   SurfaceFormat("R8G8B8A8_UNORM", "EXTENDED_SRGB_LINEAR"),
   SurfaceFormat("R8G8B8A8_SRGB", "SRGB_NONLINEAR")}

FormatLists ==
  UNION {[1..n -> SurfaceFormats] : n \in 0..MaxFormats}

PresentModeLists ==
  {<<>>, <<"FIFO">>, <<"IMMEDIATE">>, <<"FIFO", "IMMEDIATE">>}

\* the image counts a surface may report: a max_image_count of 0 means no limit
ImageCountRanges ==
  {r \in (1..MaxImageCount) \X (0..MaxImageCount) : r[2] = 0 \/ r[1] <= r[2]}

\* what the platform may report for the window surface
Surfaces ==
  {[min_image_count |-> r[1], max_image_count |-> r[2],
    formats |-> fs, present_modes |-> pm] :
     r \in ImageCountRanges,
     fs \in FormatLists,
     pm \in PresentModeLists}

\* every reported format being taken for a suitable one
SuitableFormat_any(f) == TRUE

\* SurfaceRelated::detail, the predicate of formats.iter().find(..)
SuitableFormat(f) ==
  /\ f.format \in {"R8G8B8A8_UNORM", "B8G8R8A8_UNORM"}
  /\ f.color_space = "SRGB_NONLINEAR"

\* formats.iter().find(..): the position of the first suitable format, 0 if none
FirstSuitableFormat(formats) ==
  LET hits == {i \in 1..Len(formats) : SuitableFormat(formats[i])}
  IN IF hits = {} THEN 0 ELSE CHOOSE i \in hits : \A j \in hits : i <= j

NoFormat == SurfaceFormat("UNDEFINED", "none")

\* SurfaceRelated::detail
SurfaceRelated_detail(sf) ==
  LET at == FirstSuitableFormat(sf.formats)
  IN IF sf.formats = <<>> \/ sf.present_modes = <<>>
     THEN [ok |-> FALSE, error |-> "Physical device incompatible with surface",
           format |-> NoFormat, image_count |-> 0]
     ELSE IF at = 0
     THEN [ok |-> FALSE, error |-> "No suitable surface format",
           format |-> NoFormat, image_count |-> 0]
     ELSE [ok |-> TRUE, error |-> "none",
           format |-> sf.formats[at], image_count |-> image_count(sf)]

IsImmediate(m) == m = "IMMEDIATE"

\* present_modes.iter().find(..): the position of the first IMMEDIATE mode, 0 if none
FirstImmediate(modes) ==
  LET hits == {i \in 1..Len(modes) : IsImmediate(modes[i])}
  IN IF hits = {} THEN 0 ELSE CHOOSE i \in hits : \A j \in hits : i <= j

\* SwapchainWindow::new from get_detail to the check of the number of images;
\* `extra` is the number of images the platform creates beyond the requested
\* minimum
SwapchainWindow_build(sf, extra) ==
  LET d == SurfaceRelated_detail(sf)
      pm == FirstImmediate(sf.present_modes)
      images == d.image_count + extra
      base == [ok |-> FALSE, error |-> d.error, detail |-> d.ok, handle |-> FALSE,
               format |-> d.format, present_mode |-> "none",
               image_count |-> d.image_count, images |-> 0, elements |-> 0]
  IN IF ~d.ok THEN base
     ELSE IF pm = 0 THEN [base EXCEPT !.error = "No suitable present mode"]
     ELSE IF images # d.image_count
     THEN [base EXCEPT !.error = "Somehow the number of images in the swapchain doesn't add up",
                       !.handle = TRUE, !.present_mode = sf.present_modes[pm],
                       !.images = images]
     ELSE [base EXCEPT !.ok = TRUE, !.error = "none", !.handle = TRUE,
                       !.present_mode = sf.present_modes[pm],
                       !.images = images, !.elements = images]

\* what the surface specification leaves alone
SurfaceOthers ==
  <<variant, mesh_buffers, mesh, front_back, frames, wanted, last_used_acquire_semaphore, acquire_calls,
    semaphores_image_acquired, fences, queue, cur, window_pre_render_info,
    hmd_pre_render_info, xr, window_flip_flop, hmd_flip_flop, views,
    lastCalls, hazards, hmdIterCalls>>

\* a window surface of some capabilities, formats and present modes, no
\* swapchain built on it yet
SurfaceInit ==
  /\ variant = "context"
  /\ phase = "surface"
  /\ frames = 0
  /\ caps \in Surfaces
  /\ wanted = Ext(2, 2)
  /\ last_used_acquire_semaphore = 0
  /\ acquire_calls = 0
  /\ semaphores_image_acquired = <<>>
  /\ fences = <<>>
  /\ queue = <<>>
  /\ swapchains = <<>>
  /\ cur = 1
  /\ window_pre_render_info = None
  /\ hmd_pre_render_info = None
  /\ xr = [frame_open |-> FALSE, ends |-> 0, image |-> "released"]
  /\ window_flip_flop = 0
  /\ hmd_flip_flop = 0
  /\ views = NoIndex
  /\ lastOp = "none"
  /\ lastResult = "ok"
  /\ lastError = NoError
  /\ lastCalls = <<>>
  /\ hazards = {}
  /\ hmdIterCalls = <<>>
  /\ mesh_buffers = None
  /\ mesh = None
  /\ front_back = None

\* Context::new or Context::resize builds the window swapchain on the surface
Surface_SwapchainWindow_new(extra) ==
  LET built == SwapchainWindow_build(caps, extra)
  IN /\ phase = "surface"
     /\ extra = 0 \/ (built.handle /\ extra > 0)
     /\ phase' = "built"
     /\ swapchains' = <<built>>
     /\ lastOp' = "SwapchainWindow::new"
     /\ lastResult' = IF built.ok THEN "ok" ELSE "err"
     /\ lastError' = IF built.ok THEN NoError ELSE [kind |-> "other", at |-> 1]
     /\ UNCHANGED caps
     /\ UNCHANGED SurfaceOthers

SurfaceNext ==
  \E extra \in 0..1 : Surface_SwapchainWindow_new(extra)

SpecSurface == SurfaceInit /\ [][SurfaceNext]_vars

\* C31: image count negotiation.  The image count requested for the window
\* swapchain is at least the surface's min_image_count and, when
\* max_image_count is not zero, at most max_image_count; and a build in which
\* the number of images created differs from the requested one ends with an
\* error instead of going on
C31_ImageCountNegotiation ==
  phase = "built" =>
    LET b == swapchains[1]
    IN /\ b.detail =>
            /\ b.image_count >= caps.min_image_count
            /\ caps.max_image_count > 0 => b.image_count <= caps.max_image_count
       /\ (b.handle /\ b.images # b.image_count) =>
            (~b.ok /\ lastResult = "err" /\ b.elements = 0)

\* ---------------------------------------------------------------------------
\* C33: an unsuitable surface is fatal at build time.  On a surface that offers
\* no IMMEDIATE present mode, or no R8G8B8A8_UNORM / B8G8R8A8_UNORM format
\* with the SRGB_NONLINEAR colour space, the build of the window swapchain
\* returns an error and creates no swapchain; a build that succeeds chose the
\* first such format in the order the surface reported
WantedFormat(f) ==
  /\ f \in {SurfaceFormat("R8G8B8A8_UNORM", "SRGB_NONLINEAR"),
             SurfaceFormat("B8G8R8A8_UNORM", "SRGB_NONLINEAR")}

C33_UnsuitableSurfaceFatal ==
  phase = "built" =>
    LET b == swapchains[1]
        noImmediate == \A i \in 1..Len(caps.present_modes) :
                         caps.present_modes[i] # "IMMEDIATE"
        noFormat == \A i \in 1..Len(caps.formats) : ~WantedFormat(caps.formats[i])
    IN /\ (noImmediate \/ noFormat) =>
            (~b.ok /\ ~b.handle /\ b.elements = 0 /\ lastResult = "err")
       /\ b.ok =>
            \E i \in 1..Len(caps.formats) :
              /\ b.format = caps.formats[i]
              /\ WantedFormat(caps.formats[i])
              /\ \A j \in 1..(i - 1) : ~WantedFormat(caps.formats[j])

\* a build that went through on a surface whose first format is unsuitable
C33_Witness ==
  /\ phase = "built"
  /\ swapchains[1].ok
  /\ Len(caps.formats) = 2
  /\ ~WantedFormat(caps.formats[1])
  /\ swapchains[1].format = caps.formats[2]

\* ---------------------------------------------------------------------------
\* Mesh buffers, one-shot command buffers and the example's per-frame bundles:
\* the helpers the set-up code and the frame operations call
MaxMeshLen == 2

ResourcesOthers ==
  <<variant, caps, wanted, last_used_acquire_semaphore, acquire_calls,
    semaphores_image_acquired, fences, swapchains, cur, window_pre_render_info,
    hmd_pre_render_info, xr, window_flip_flop, hmd_flip_flop, views,
    hmdIterCalls>>

\* a Mesh, of which only the lengths of vertices and indices matter here
Mesh(v, i) == [vertices |-> v, indices |-> i]

Meshes == {Mesh(v, i) : v \in 0..MaxMeshLen, i \in 0..MaxMeshLen}

\* MappedDeviceBuffer::new: a buffer of len elements behind a new handle
MappedDeviceBuffer_new(len, handle) ==
  [len |-> len, handle |-> handle, live |-> TRUE]

\* MappedDeviceBuffer::size
size(buffer) == buffer.len

\* MeshBuffers::new
MeshBuffers_new(vertices, indices) ==
  [vertex |-> MappedDeviceBuffer_new(vertices, 1),
   index |-> MappedDeviceBuffer_new(indices, 2)]

\* the handle the next created buffer gets
NewHandle(mb) == Max(mb.vertex.handle, mb.index.handle) + 1

\* MeshBuffers::resize_vertex / resize_index on one of the two buffers: nothing
\* when the size is the new size already, else the buffer is destroyed and a
\* new one created in its place; when the creation fails the destroyed buffer
\* stays in the field
resize_buffer(buffer, which, new_size, handle, fails) ==
  IF size(buffer) = new_size
  THEN [buffer |-> buffer, ok |-> TRUE, calls |-> <<>>]
  ELSE IF fails
  THEN [buffer |-> [buffer EXCEPT !.live = FALSE], ok |-> FALSE,
        calls |-> << <<"destroy_buffer", which, buffer.handle, buffer.live>>,
                     <<"create_buffer", which, new_size>> >>]
  ELSE [buffer |-> MappedDeviceBuffer_new(new_size, handle), ok |-> TRUE,
        calls |-> << <<"destroy_buffer", which, buffer.handle, buffer.live>>,
                     <<"create_buffer", which, new_size>> >>]

\* a buffer being resized on every write
NeedsResize_always(buffer_size, len) == TRUE

\* a buffer never being resized
NeedsResize_never(buffer_size, len) == FALSE

\* MeshBuffers::write: the condition under which a buffer is resized
NeedsResize(buffer_size, len) == buffer_size < len

\* MappedDeviceBuffer::write: assert!(data.len() <= self.buffer.len)
write_assertion(buffer, data_len) == data_len <= buffer.len

\* MeshBuffers::num_indices
num_indices(mb) == size(mb.index)

\* MeshBuffers::write(mesh); fail = 1: the creation in resize_vertex fails,
\* fail = 2: the creation in resize_index fails
MeshBuffers_write(m, fail) ==
  LET kept(buffer) == [buffer |-> buffer, ok |-> TRUE, calls |-> <<>>]
      rv == IF NeedsResize(size(mesh_buffers.vertex), m.vertices)
            THEN resize_buffer(mesh_buffers.vertex, "vertex", m.vertices,
                        NewHandle(mesh_buffers), fail = 1)
            ELSE kept(mesh_buffers.vertex)
      mb1 == [mesh_buffers EXCEPT !.vertex = rv.buffer]
      ri == IF ~rv.ok THEN kept(mesh_buffers.index)
            ELSE IF NeedsResize(size(mesh_buffers.index), m.indices)
            THEN resize_buffer(mesh_buffers.index, "index", m.indices, NewHandle(mb1), fail = 2)
            ELSE kept(mesh_buffers.index)
      mb2 == [mb1 EXCEPT !.index = ri.buffer]
      resized == rv.ok /\ ri.ok
      vertex_fits == write_assertion(mb2.vertex, m.vertices)
      index_fits == write_assertion(mb2.index, m.indices)
      writes == IF ~resized THEN <<>>
                ELSE IF ~vertex_fits THEN << <<"write", "vertex", m.vertices, mb2.vertex.live>> >>
                ELSE << <<"write", "vertex", m.vertices, mb2.vertex.live>>,
                        <<"write", "index", m.indices, mb2.index.live>> >>
      calls == rv.calls \o ri.calls \o writes
  IN /\ phase = "setup"
     /\ mesh_buffers # None
     /\ frames < MaxFrames
     /\ fail = 1 => rv.calls # <<>>
     /\ fail = 2 => rv.ok /\ ri.calls # <<>>
     /\ frames' = frames + 1
     /\ mesh_buffers' = mb2
     /\ lastOp' = "MeshBuffers::write"
     /\ lastCalls' = calls
     /\ lastResult' = IF ~resized THEN "err"
                      ELSE IF vertex_fits /\ index_fits THEN "ok" ELSE "panic"
     /\ lastError' = IF resized THEN NoError ELSE [kind |-> "other", at |-> Len(calls)]
     /\ mesh' = IF resized /\ vertex_fits /\ index_fits THEN m ELSE mesh
     /\ phase' = IF resized /\ ~(vertex_fits /\ index_fits) THEN "panicked" ELSE phase
     /\ hazards' =
          {"destroy_destroyed" : i \in {j \in 1..Len(calls) :
              calls[j][1] = "destroy_buffer" /\ ~calls[j][4]}}
          \cup {"write_destroyed" : i \in {j \in 1..Len(calls) :
              calls[j][1] = "write" /\ ~calls[j][4]}}
     /\ UNCHANGED <<queue, front_back>>
     /\ UNCHANGED ResourcesOthers

\* the draw of render_window / record_hmd: bind the vertex and the index
\* buffer and draw num_indices() indices
cmd_draw_indexed ==
  /\ phase = "setup"
  /\ mesh_buffers # None
  /\ lastOp' = "cmd_draw_indexed"
  /\ lastCalls' = << <<"cmd_bind_vertex_buffers", mesh_buffers.vertex.handle>>,
                     <<"cmd_bind_index_buffer", mesh_buffers.index.handle>>,
                     <<"cmd_draw_indexed", num_indices(mesh_buffers)>> >>
  /\ lastResult' = "ok"
  /\ lastError' = NoError
  /\ hazards' = {}
  /\ UNCHANGED <<phase, frames, queue, mesh_buffers, mesh, front_back>>
  /\ UNCHANGED ResourcesOthers

\* Context::one_shot: the calls in their order; the command buffer is freed and
\* the fence destroyed after the wait
one_shot_steps(cmd, fence) ==
  << [n |-> 1, c |-> <<"alloc_command_buffers", cmd>>],
     [n |-> 2, c |-> <<"create_fence", fence, create_fence(FALSE)>>],
     [n |-> 3, c |-> <<"begin_command_buffer", cmd>>],
     [n |-> 4, c |-> <<"cmd_writer", cmd>>],
     [n |-> 5, c |-> <<"end_command_buffer", cmd>>],
     [n |-> 6, c |-> <<"queue_submit", cmd, fence>>],
     [n |-> 7, c |-> <<"wait_for_fences", fence>>],
     [n |-> 8, c |-> <<"free_command_buffers", cmd>>],
     [n |-> 8, c |-> <<"destroy_fence", fence>>] >>

\* Context::one_shot(cmd_writer); fail = 4: the closure returns an error.  A
\* wait that returned successfully means the queue has completed the work; a
\* wait that failed leaves the submission with the GPU
Context_one_shot(fail) ==
  LET cmd == <<"OneShotCommandBuffer", frames>>
      fence == <<"OneShotFence", frames>>
      steps == one_shot_steps(cmd, fence)
  IN /\ phase = "setup"
     /\ frames < MaxFrames
     /\ frames' = frames + 1
     /\ lastOp' = "one_shot"
     /\ lastCalls' = Attempted(steps, fail)
     /\ lastResult' = Result(fail)
     /\ lastError' = ErrorOf(steps, fail, "other")
     /\ queue' = IF fail = 0 THEN <<>>
                 ELSE IF fail = 7 THEN Append(queue, Submission(cmd, fence, NoSem, "one_shot"))
                 ELSE queue
     /\ hazards' = {}
     /\ UNCHANGED <<phase, mesh_buffers, mesh, front_back>>
     /\ UNCHANGED ResourcesOthers

\* the array Double::create_front_and_back iterates over
FrontBackNames == <<"Front, Back">>

\* the bundle built for one element of the array
Double(prefix, front_or_back) ==
  [buffer |-> <<prefix, front_or_back, "Resource">>,
   command |-> <<prefix, front_or_back, "CommandBuffer">>,
   semaphore |-> <<prefix, front_or_back, "RenderingFinished">>,
   fence |-> [name |-> <<prefix, front_or_back, "RenderingFinished">>,
              signaled |-> create_fence(TRUE)]]

\* the four fallible creations made for each element of the array
create_front_and_back_steps(prefix) ==
  [j \in 1..(4 * Len(FrontBackNames)) |->
     LET k == ((j - 1) \div 4) + 1
         d == Double(prefix, FrontBackNames[k])
     IN [n |-> j,
         c |-> CASE j % 4 = 1 -> <<"Buffer::new", d.buffer>>
                 [] j % 4 = 2 -> <<"alloc_command_buffers", d.command>>
                 [] j % 4 = 3 -> <<"create_semaphore", d.semaphore>>
                 [] OTHER -> <<"create_fence", d.fence.name, d.fence.signaled>>]]

\* Double::create_front_and_back: the bundles are collected into a Vec, the
\* first error ending the collection, and the Vec is converted into [Self; 2]
\* with try_into().unwrap(), which panics unless it holds two elements
Double_create_front_and_back(prefix, fail) ==
  LET steps == create_front_and_back_steps(prefix)
      collected == [k \in 1..Len(FrontBackNames) |-> Double(prefix, FrontBackNames[k])]
      converts == Len(collected) = 2
  IN /\ phase = "setup"
     /\ front_back = None
     /\ lastOp' = "create_front_and_back"
     /\ lastCalls' = Attempted(steps, fail)
     /\ lastError' = ErrorOf(steps, fail, "other")
     /\ lastResult' = IF fail # 0 THEN "err" ELSE IF converts THEN "ok" ELSE "panic"
     /\ front_back' = IF fail = 0 /\ converts THEN collected ELSE front_back
     /\ phase' = IF fail = 0 /\ ~converts THEN "panicked" ELSE phase
     /\ hazards' = {}
     /\ UNCHANGED <<frames, queue, mesh_buffers, mesh>>
     /\ UNCHANGED ResourcesOthers

\* a context with mesh buffers of some capacities into which nothing has been
\* written, and no per-frame bundles yet
ResourcesInit ==
  /\ variant = "context"
  /\ phase = "setup"
  /\ frames = 0
  /\ caps = Caps(0, Ext(2, 2))
  /\ wanted = Ext(2, 2)
  /\ last_used_acquire_semaphore = 0
  /\ acquire_calls = 0
  /\ semaphores_image_acquired = <<>>
  /\ fences = <<>>
  /\ queue = <<>>
  /\ swapchains = <<>>
  /\ cur = 1
  /\ window_pre_render_info = None
  /\ hmd_pre_render_info = None
  /\ xr = [frame_open |-> FALSE, ends |-> 0, image |-> "released"]
  /\ window_flip_flop = 0
  /\ hmd_flip_flop = 0
  /\ views = NoIndex
  /\ lastOp = "none"
  /\ lastResult = "ok"
  /\ lastError = NoError
  /\ lastCalls = <<>>
  /\ hazards = {}
  /\ hmdIterCalls = <<>>
  /\ mesh_buffers \in {MeshBuffers_new(v, i) : v \in 1..MaxMeshLen, i \in 1..MaxMeshLen}
  /\ mesh = None
  /\ front_back = None

ResourcesNext ==
  \/ \E m \in Meshes, fail \in 0..2 : MeshBuffers_write(m, fail)
  \/ cmd_draw_indexed
  \/ \E fail \in 0..7 : Context_one_shot(fail)
  \/ \E prefix \in {"HMD", "Window"}, fail \in 0..(4 * Len(FrontBackNames)) :
       Double_create_front_and_back(prefix, fail)
  \/ GpuComplete

SpecResources == ResourcesInit /\ [][ResourcesNext]_vars

\* C32: the draw covers the mesh.  The index count of the indexed draw is the
\* number of indices of the mesh most recently written into the mesh buffers,
\* whether the meshes written grew or shrank
C32_DrawCoversMesh ==
  (lastOp = "cmd_draw_indexed" /\ mesh # None) =>
    \A i \in Calls("cmd_draw_indexed") : lastCalls[i][2] = mesh.indices

\* C34: one_shot is synchronous and self-cleaning.  When one_shot has
\* returned, with success or with an error, the work it submitted is no longer
\* with the GPU, and the command buffer it allocated has been freed and the
\* fence it created destroyed, each exactly once
C34_OneShotSynchronousSelfCleaning ==
  lastOp = "one_shot" =>
    /\ \A i \in Calls("queue_submit") :
         i # lastError.at => ~InFlight(queue, lastCalls[i][2])
    /\ \A i \in Calls("alloc_command_buffers") :
         i # lastError.at =>
           Cardinality({j \in Calls("free_command_buffers") :
                          lastCalls[j][2] = lastCalls[i][2]}) = 1
    /\ \A i \in Calls("create_fence") :
         i # lastError.at =>
           Cardinality({j \in Calls("destroy_fence") :
                          lastCalls[j][2] = lastCalls[i][2]}) = 1

\* the capacity of the buffer `which` of the mesh buffers mb
CapacityOf(mb, which) == IF which = "vertex" THEN size(mb.vertex) ELSE size(mb.index)

\* C35: MeshBuffers::write never trips the capacity assertion of
\* MappedDeviceBuffer::write.  For every mesh and every capacity the buffers
\* had, a write that got its buffers leaves both capacities at least the
\* mesh's vertex and index counts, and a buffer is only reallocated when its
\* capacity was below the new size: one whose capacity sufficed stays as it was
C35_WriteFitsCapacity ==
  [][(lastOp' = "MeshBuffers::write" /\ frames' # frames) =>
       /\ lastResult' # "panic"
       /\ lastResult' = "ok" =>
            /\ size(mesh_buffers'.vertex) >= mesh'.vertices
            /\ size(mesh_buffers'.index) >= mesh'.indices
            /\ size(mesh_buffers.vertex) >= mesh'.vertices
                 => mesh_buffers'.vertex = mesh_buffers.vertex
            /\ size(mesh_buffers.index) >= mesh'.indices
                 => mesh_buffers'.index = mesh_buffers.index
       /\ \A i \in 1..Len(lastCalls') :
            lastCalls'[i][1] = "create_buffer" =>
              lastCalls'[i][3] > CapacityOf(mesh_buffers, lastCalls'[i][2])]_vars

\* a write that had to reallocate the vertex buffer for a larger mesh and kept
\* an index buffer larger than the mesh needs
C35_Witness ==
  /\ lastOp = "MeshBuffers::write"
  /\ lastResult = "ok"
  /\ \E i \in Calls("create_buffer") : lastCalls[i][2] = "vertex"
  /\ \A i \in Calls("create_buffer") : lastCalls[i][2] # "index"
  /\ mesh.indices < size(mesh_buffers.index)
  /\ mesh.vertices = size(mesh_buffers.vertex)

\* C36: Double::create_front_and_back, unless a creation failed, returns
\* exactly two bundles, front and back, each with a command buffer, a semaphore
\* and a signaled fence of its own, so that a flip-flop index of 0 or 1 always
\* selects a bundle
C36_FrontAndBack ==
  (lastOp = "create_front_and_back" /\ lastResult # "err") =>
    /\ lastResult = "ok"
    /\ Len(front_back) = 2
    /\ \A flip_flop \in {0, 1} : (flip_flop + 1) \in DOMAIN front_back
    /\ front_back[1].command # front_back[2].command
    /\ front_back[1].semaphore # front_back[2].semaphore
    /\ front_back[1].fence.name # front_back[2].fence.name
    /\ \A k \in 1..2 : front_back[k].fence.signaled

====
